---- MODULE Spec2Model ----
(***************************************************************************)
(* Model of the retro-compositor cut decision engine                       *)
(* (CompositionEngine::generate_timeline and its helpers) and of the       *)
(* CompositionTimeline data structure, src/src/composition/engine.rs.      *)
(* The audio analysis, the audio loader and the video discovery are        *)
(* modelled further down, each as a specification of its own with its own  *)
(* units, stated where it begins.                                          *)
(*                                                                         *)
(* Numbers.  Times (f64 seconds in the source) are integers counted in     *)
(* ticks of half a second: 1.0 s is 2 ticks.  Every time the model uses is *)
(* a multiple of 0.5 s, which f64 represents exactly, and durations are    *)
(* restricted to those whose coverage cut times are whole ticks, so time   *)
(* arithmetic in the model is the source's arithmetic.  Strengths, rms     *)
(* energies and beat_sync_strength (f32 in the source) are integers in     *)
(* tenths; the weighted sums and averages of the source are compared  *)
(* after cross-multiplying by the denominators, so no division is rounded. *)
(***************************************************************************)
EXTENDS Integers, Sequences, FiniteSets, Bags, TLC

VARIABLES
    config,          \* self.config.composition: min/max cut interval, beat_sync_strength
    num_clips,       \* video_sequence.len()
    duration,        \* audio_analysis.duration
    energy_levels,   \* audio_analysis.energy_levels: sequence of [time, rms]
    pc,              \* position inside generate_timeline; for direct use of a
                     \* CompositionTimeline, the last method called on it
    beat,            \* loop variable of `for beat in &audio_analysis.beats`
    beat_count,      \* number of beats the loop has taken from audio_analysis.beats
    timeline,        \* CompositionTimeline: [cuts, clip_assignments]
    current_clip,    \* local of generate_timeline
    last_cut_time,   \* local of generate_timeline
    result,          \* what generate_timeline returned: "none", "Ok", "Err"
    ret,             \* value returned by the last segment_duration call
    analyzer,        \* AudioAnalyzer.config (an AnalysisConfig)
    input,           \* arguments of the audio or loading function under study
    output           \* what that function returned

vars == <<config, num_clips, duration, energy_levels, pc, beat, beat_count,
          timeline, current_clip, last_cut_time, result, ret,
          analyzer, input, output>>

\* The audio side of the state, which the composition engine never touches.
audio == <<analyzer, input, output>>

(***************************************************************************)
(* Bounds of the model.                                                    *)
(***************************************************************************)
MaxBeats == 3
MaxClips == 3
MaxEnergy == 3
MaxCuts == 4

\* Beat times (ticks) the beat sequence is drawn from.
BeatTimes == {0, 2, 3, 6, 10, 20}
\* Beat strengths and rms energies (tenths): 0.0, 0.5, 1.0, which f32
\* represents exactly.
Levels == {0, 5, 10}
\* beat_sync_strength values (tenths): 0.0, the default 0.8, 1.0.
SyncStrengths == {0, 8, 10}
\* (min_cut_interval, max_cut_interval) in ticks: the default (1 s, 8 s), a
\* tight range (1 s, 3 s) and an inverted range (4 s, 2 s), which nothing on
\* the path from Config::from_file to generate_timeline rejects.
CutIntervals == {<<2, 16>>, <<2, 6>>, <<8, 4>>}
\* Track durations (ticks): 8 s, 12 s, 40 s.
Durations == {16, 24, 80}
\* Cut times, clip ids and total durations used against the timeline directly.
ApiTimes == {0, 2, 4}
ApiClips == {1, 2}
ApiTotals == {7}

(***************************************************************************)
(* Program constants.                                                      *)
(***************************************************************************)
StrengthWeight == 4        \* beat.strength * 0.4
EnergyWeight == 3          \* local_energy * 0.3
DownbeatWeight == 2        \* += 0.2
TimeWeight == 1            \* time_factor * 0.1
CutThreshold == 6          \* cut_probability >= 0.6
CutWindow == 1             \* beat.time -/+ 0.5 s
ClipWindow == 2            \* beat.time -/+ 1.0 s
HighEnergy == 7            \* energy > 0.7
LowEnergy == 3             \* energy < 0.3
CoverageMinCuts == 3       \* timeline.cuts.len() < 3
CoverageMinDuration == 20  \* duration > 10.0 s
CoverageSegment == 16      \* duration / 8.0 s
CoverageSeparation == 4    \* (t - cut_time).abs() < 2.0 s
DownbeatPeriod == 4        \* i % 4 == 0

Abs(x) == IF x < 0 THEN -x ELSE x
Max2(a, b) == IF a >= b THEN a ELSE b

(***************************************************************************)
(* CompositionTimeline                                                     *)
(***************************************************************************)
new == [cuts |-> <<>>, clip_assignments |-> <<>>]

add_cut(tl, time, clip_id) ==
    [cuts |-> Append(tl.cuts, time),
     clip_assignments |-> Append(tl.clip_assignments, clip_id)]

\* paired: zip of cuts and clip_assignments.  zip stops at the shorter one.
Paired(tl) ==
    LET n == IF Len(tl.cuts) <= Len(tl.clip_assignments)
             THEN Len(tl.cuts) ELSE Len(tl.clip_assignments)
    IN  [k \in 1..n |-> <<tl.cuts[k], tl.clip_assignments[k]>>]

\* sort_cuts as it would be with an unstable comparison: a pair goes before
\* the pairs of equal time.
RECURSIVE InsertBeforeEqual(_, _)
InsertBeforeEqual(s, p) ==
    IF s = <<>> THEN <<p>>
    ELSE IF s[Len(s)][1] < p[1] THEN Append(s, p)
    ELSE Append(InsertBeforeEqual(SubSeq(s, 1, Len(s) - 1), p), s[Len(s)])

\* Insert pair p into the sorted sequence s after every element whose time is
\* not greater: slice::sort_by is a stable sort, so pairs with equal times
\* keep their order.
RECURSIVE InsertStable(_, _)
InsertStable(s, p) ==
    IF s = <<>> THEN <<p>>
    ELSE IF s[Len(s)][1] <= p[1] THEN Append(s, p)
    ELSE Append(InsertStable(SubSeq(s, 1, Len(s) - 1), p), s[Len(s)])

\* Sorted times under the clip ids left where they were.
RECURSIVE SortedTimes(_)
SortedTimes(c) ==
    IF c = <<>> THEN <<>>
    ELSE LET m == CHOOSE k \in 1..Len(c) : \A j \in 1..Len(c) : c[k] <= c[j]
         IN  <<c[m]>> \o SortedTimes([k \in 1..(Len(c) - 1) |->
                                         IF k < m THEN c[k] ELSE c[k + 1]])

sort_cuts_times_only(tl) ==
    [cuts |-> SortedTimes(tl.cuts), clip_assignments |-> tl.clip_assignments]

RECURSIVE SortBy(_)
SortBy(s) ==
    IF s = <<>> THEN <<>>
    ELSE InsertStable(SortBy(SubSeq(s, 1, Len(s) - 1)), s[Len(s)])

sort_cuts(tl) ==
    LET paired == SortBy(Paired(tl))
    IN  [cuts |-> [k \in 1..Len(paired) |-> paired[k][1]],
         clip_assignments |-> [k \in 1..Len(paired) |-> paired[k][2]]]

\* segment_duration answering the total for an index out of range.
segment_duration_total(tl, index, total_duration) ==
    IF index >= Len(tl.cuts) THEN total_duration
    ELSE LET start == tl.cuts[index + 1]
             end == IF index + 1 < Len(tl.cuts) THEN tl.cuts[index + 2]
                    ELSE total_duration
         IN  end - start

\* index is a usize: 0-based, never negative.
segment_duration(tl, index, total_duration) ==
    IF index >= Len(tl.cuts) THEN 0
    ELSE LET start == tl.cuts[index + 1]
             end == IF index + 1 < Len(tl.cuts) THEN tl.cuts[index + 2]
                    ELSE total_duration
         IN  end - start

(***************************************************************************)
(* AudioAnalysis::average_energy_in_range, as the pair <<sum, count>> of   *)
(* the rms values with start <= time <= end.  The source returns 0.0 when  *)
(* count is 0 and sum / count otherwise; <<0, 1>> stands for the 0.0.      *)
(***************************************************************************)
RECURSIVE SumRms(_, _)
SumRms(levels, idx) ==
    IF idx = {} THEN 0
    ELSE LET k == CHOOSE x \in idx : TRUE
         IN  levels[k].rms + SumRms(levels, idx \ {k})

average_energy_in_range(levels, start, end) ==
    LET relevant == {k \in 1..Len(levels) :
                        levels[k].time >= start /\ levels[k].time <= end}
    IN  IF relevant = {} THEN <<0, 1>>
        ELSE <<SumRms(levels, relevant), Cardinality(relevant)>>

(***************************************************************************)
(* CompositionEngine::should_cut_at_beat                                   *)
(***************************************************************************)
\* The weighted sum before beat_sync_strength is applied, as the fraction
\* <<numerator, denominator>>: with S = strength, E / L = local energy,
\* T / D = time factor,
\*   S/10 * 4/10 + E/(10 L) * 3/10 + [Downbeat] * 2/10 + T/D * 1/10
\* over the common denominator 100 * L * D.
cut_probability(b, time_since_last_cut, cfg, levels) ==
    LET local_energy == average_energy_in_range(levels, b.time - CutWindow,
                                                b.time + CutWindow)
        E == local_energy[1]
        L == local_energy[2]
        D == cfg.max_cut_interval - cfg.min_cut_interval
        T0 == time_since_last_cut - cfg.min_cut_interval
        T == IF T0 > D THEN D ELSE T0          \* .min(1.0)
        db == IF b.beat_type = "Downbeat" THEN 1 ELSE 0
    IN  << StrengthWeight * b.strength * L * D
           + EnergyWeight * E * D
           + DownbeatWeight * db * 10 * L * D
           + TimeWeight * T * 10 * L,
           100 * L * D >>

\* The threshold test with > for >=.
threshold_exceeded(p, sync) == p[1] * sync > CutThreshold * p[2]

\* cut_probability *= beat_sync_strength; cut_probability >= 0.6
threshold_reached(p, sync) == p[1] * sync >= CutThreshold * p[2]

\* should_cut_at_beat forcing a cut only after max_cut_interval is exceeded.
should_cut_after_max(b, time_since_last_cut, cfg, levels) ==
    IF time_since_last_cut > cfg.max_cut_interval THEN TRUE
    ELSE IF time_since_last_cut < cfg.min_cut_interval THEN FALSE
    ELSE threshold_reached(cut_probability(b, time_since_last_cut, cfg, levels),
                           cfg.beat_sync_strength)

should_cut_at_beat(b, time_since_last_cut, cfg, levels) ==
    IF time_since_last_cut >= cfg.max_cut_interval THEN TRUE
    ELSE IF time_since_last_cut < cfg.min_cut_interval THEN FALSE
    ELSE threshold_reached(cut_probability(b, time_since_last_cut, cfg, levels),
                           cfg.beat_sync_strength)

(***************************************************************************)
(* CompositionEngine::select_next_clip                                     *)
(***************************************************************************)
\* select_next_clip cycling over 0..n-1 instead of 1..n.
select_next_clip_zero_based(cur, n, b, levels) ==
    LET next_clip == (cur + 1) % n
        energy == average_energy_in_range(levels, b.time - ClipWindow,
                                          b.time + ClipWindow)
        high == energy[1] > HighEnergy * energy[2]
        low == energy[1] < LowEnergy * energy[2]
    IN  IF high /\ n > 2
        THEN LET lo == (n + 1) \div 2
             IN  lo + ((cur % 3) % (n - lo + 1))
        ELSE IF low /\ n > 1
        THEN 1 + ((cur % 2) % Max2(n \div 2, 1))
        ELSE next_clip

select_next_clip(cur, n, b, levels) ==
    LET next_clip == (cur % n) + 1
        energy == average_energy_in_range(levels, b.time - ClipWindow,
                                          b.time + ClipWindow)
        high == energy[1] > HighEnergy * energy[2]
        low == energy[1] < LowEnergy * energy[2]
    IN  IF high /\ n > 2
        THEN \* ((n + 1) / 2 ..= n).cycle().nth(cur % 3)
             LET lo == (n + 1) \div 2
             IN  lo + ((cur % 3) % (n - lo + 1))
        ELSE IF low /\ n > 1
        THEN \* (1 ..= (n / 2).max(1)).cycle().nth(cur % 2)
             1 + ((cur % 2) % Max2(n \div 2, 1))
        ELSE next_clip

(***************************************************************************)
(* CompositionEngine::ensure_minimum_coverage                              *)
(***************************************************************************)
\* (duration / 8.0).ceil()
segments_needed(d) == (d + CoverageSegment - 1) \div CoverageSegment

\* cut_time of the loop's step i; a whole number of ticks for every duration
\* of the model (CoverageExact).
coverage_cut_time(i, d) == (i * d) \div segments_needed(d)

CoverageExact(d) ==
    \A i \in 1..(segments_needed(d) - 1) : (i * d) % segments_needed(d) = 0

\* The post-pass taking the segment index i itself as the clip id.
RECURSIVE coverage_loop_clip_i(_, _, _, _)
coverage_loop_clip_i(tl, i, d, n) ==
    IF i >= segments_needed(d) THEN tl
    ELSE LET cut_time == coverage_cut_time(i, d)
             too_close == \E k \in 1..Len(tl.cuts) :
                              Abs(tl.cuts[k] - cut_time) < CoverageSeparation
         IN  IF ~too_close
             THEN coverage_loop_clip_i(add_cut(tl, cut_time, i), i + 1, d, n)
             ELSE coverage_loop_clip_i(tl, i + 1, d, n)

\* for i in 1..segments_needed, from step i on
RECURSIVE coverage_loop(_, _, _, _)
coverage_loop(tl, i, d, n) ==
    IF i >= segments_needed(d) THEN tl
    ELSE LET cut_time == coverage_cut_time(i, d)
             too_close == \E k \in 1..Len(tl.cuts) :
                              Abs(tl.cuts[k] - cut_time) < CoverageSeparation
         IN  IF ~too_close
             THEN coverage_loop(add_cut(tl, cut_time, ((i - 1) % n) + 1), i + 1, d, n)
             ELSE coverage_loop(tl, i + 1, d, n)

\* The coverage test with <= for <.
coverage_needed_inclusive(tl, d) ==
    Len(tl.cuts) <= CoverageMinCuts /\ d > CoverageMinDuration

coverage_needed(tl, d) ==
    Len(tl.cuts) < CoverageMinCuts /\ d > CoverageMinDuration

\* The post-pass without its closing sort_cuts.
coverage_left_unsorted(tl, d, n) ==
    IF coverage_needed(tl, d) THEN coverage_loop(tl, 1, d, n) ELSE tl

ensure_minimum_coverage(tl, d, n) ==
    IF coverage_needed(tl, d) THEN sort_cuts(coverage_loop(tl, 1, d, n)) ELSE tl

(***************************************************************************)
(* CompositionEngine::generate_timeline                                    *)
(***************************************************************************)
\* The empty-pool test off by one.
is_empty_or_single(n) == n <= 1

is_empty(n) == n = 0

NoBeat == [time |-> -1, strength |-> 0, beat_type |-> "None"]

\* A downbeat every third beat.
every_third_beat(i) == IF i % 3 = 0 THEN "Downbeat" ELSE "Beat"

\* track_beats: the beat at 0-based position i is a Downbeat iff i % 4 == 0.
BeatTypeAt(i) == IF i % DownbeatPeriod = 0 THEN "Downbeat" ELSE "Beat"

\* Energy samples are taken at a fixed hop from t = 0, here every 1.5 s.
EnergySampleTime(k) == 3 * (k - 1)

EnergyProfiles ==
    UNION { [1..n -> Levels] : n \in 0..MaxEnergy }

\* AnalysisConfig::default(); beat_sensitivity and energy_window_size in
\* tenths.
AnalysisDefault ==
    [window_size |-> 1024, hop_size |-> 512, min_bpm |-> 60, max_bpm |-> 200,
     beat_sensitivity |-> 7, energy_window_size |-> 1,
     detect_phrases |-> TRUE, calculate_spectral_features |-> TRUE]

\* No audio function has been called.
AudioIdle ==
    /\ analyzer = AnalysisDefault
    /\ input = <<>>
    /\ output = "none"

Init ==
    /\ \E ci \in CutIntervals, s \in SyncStrengths :
           config = [min_cut_interval |-> ci[1], max_cut_interval |-> ci[2],
                     beat_sync_strength |-> s]
    /\ num_clips \in 0..MaxClips
    /\ duration \in {d \in Durations : CoverageExact(d)}
    /\ \E p \in EnergyProfiles :
           energy_levels = [k \in 1..Len(p) |-> [time |-> EnergySampleTime(k), rms |-> p[k]]]
    /\ pc = "start"
    /\ beat = NoBeat
    /\ beat_count = 0
    /\ timeline = new
    /\ current_clip = 0
    /\ last_cut_time = 0
    /\ result = "none"
    /\ ret = 0
    /\ AudioIdle

inputs == <<config, num_clips, duration, energy_levels>>

\* The empty-pool check, then the initial cut at t = 0 on clip 1.
Start ==
    /\ pc = "start"
    /\ IF is_empty(num_clips)
       THEN /\ result' = "Err"
            /\ pc' = "done"
            /\ UNCHANGED <<timeline, current_clip, last_cut_time>>
       ELSE /\ timeline' = add_cut(new, 0, 1)
            /\ current_clip' = 1
            /\ last_cut_time' = 0
            /\ pc' = "loop"
            /\ UNCHANGED result
    /\ UNCHANGED <<audio, inputs, beat, beat_count, ret>>

\* The iterator over audio_analysis.beats yields the next beat.  Beat times
\* increase strictly and lie inside the track.
NextBeat ==
    /\ pc = "loop"
    /\ beat_count < MaxBeats
    /\ \E t \in BeatTimes, s \in Levels :
           /\ t > beat.time
           /\ t <= duration
           /\ beat' = [time |-> t, strength |-> s, beat_type |-> BeatTypeAt(beat_count)]
    /\ beat_count' = beat_count + 1
    /\ pc' = "body"
    /\ UNCHANGED <<audio, inputs, timeline, current_clip, last_cut_time, result, ret>>

\* The loop body for the current beat.
ProcessBeat ==
    /\ pc = "body"
    /\ LET time_since_last_cut == beat.time - last_cut_time
       IN  IF should_cut_at_beat(beat, time_since_last_cut, config, energy_levels)
           THEN LET clip == select_next_clip(current_clip, num_clips, beat, energy_levels)
                IN  /\ current_clip' = clip
                    /\ timeline' = add_cut(timeline, beat.time, clip)
                    /\ last_cut_time' = beat.time
           ELSE UNCHANGED <<timeline, current_clip, last_cut_time>>
    /\ pc' = "loop"
    /\ UNCHANGED <<audio, inputs, beat, beat_count, result, ret>>

\* The iterator is exhausted: the post-pass runs and the timeline is returned.
Finish ==
    /\ pc = "loop"
    /\ timeline' = ensure_minimum_coverage(timeline, duration, num_clips)
    /\ result' = "Ok"
    /\ pc' = "done"
    /\ UNCHANGED <<audio, inputs, beat, beat_count, current_clip, last_cut_time, ret>>

Next == Start \/ NextBeat \/ ProcessBeat \/ Finish

Spec == Init /\ [][Next]_vars

(***************************************************************************)
(* Direct use of a CompositionTimeline (as test_timeline_operations does): *)
(* any sequence of add_cut, sort_cuts and segment_duration calls.          *)
(***************************************************************************)
InitTimeline ==
    /\ config = [min_cut_interval |-> 2, max_cut_interval |-> 16,
                 beat_sync_strength |-> 8]
    /\ num_clips = 0
    /\ duration = 0
    /\ energy_levels = <<>>
    /\ pc = "new"
    /\ beat = NoBeat
    /\ beat_count = 0
    /\ timeline = new
    /\ current_clip = 0
    /\ last_cut_time = 0
    /\ result = "none"
    /\ ret = 0
    /\ AudioIdle

engine == <<inputs, beat, beat_count, current_clip, last_cut_time, result>>

CallAddCut(time, clip_id) ==
    /\ pc \in {"new", "add_cut", "sort_cuts", "segment_duration"}
    /\ Len(timeline.cuts) < MaxCuts
    /\ timeline' = add_cut(timeline, time, clip_id)
    /\ pc' = "add_cut"
    /\ UNCHANGED <<audio, engine, ret>>

CallSortCuts ==
    /\ pc \in {"new", "add_cut", "sort_cuts", "segment_duration"}
    /\ timeline' = sort_cuts(timeline)
    /\ pc' = "sort_cuts"
    /\ UNCHANGED <<audio, engine, ret>>

CallSegmentDuration(index, total_duration) ==
    /\ pc \in {"new", "add_cut", "sort_cuts", "segment_duration"}
    /\ ret' = segment_duration(timeline, index, total_duration)
    /\ pc' = "segment_duration"
    /\ UNCHANGED <<audio, engine, timeline>>

AddCutStep == \E t \in ApiTimes, c \in ApiClips : CallAddCut(t, c)

SegmentDurationStep ==
    \E i \in 0..(MaxCuts + 1), total \in ApiTotals : CallSegmentDuration(i, total)

NextTimeline == AddCutStep \/ CallSortCuts \/ SegmentDurationStep

SpecTimeline == InitTimeline /\ [][NextTimeline]_vars

(***************************************************************************)
(* Properties of the beat sweep                                            *)
(***************************************************************************)
\* The timeline of the sweep, before the post-pass: generate_timeline is at
\* the loop head or inside the loop body.
InSweep == pc \in {"loop", "body"}

\* The loop body is about to add a cut for the current beat.
CutMade == pc = "body" /\ Len(timeline'.cuts) = Len(timeline.cuts) + 1

Gaps(cuts) == {cuts[k + 1] - cuts[k] : k \in 1..(Len(cuts) - 1)}

\* C1: in the sweep's timeline, with min_cut_interval < max_cut_interval, no
\* gap between two consecutive cuts exceeds max_cut_interval.
C1_GapsAtMostMax ==
    (InSweep /\ config.min_cut_interval < config.max_cut_interval)
        => \A g \in Gaps(timeline.cuts) : g <= config.max_cut_interval

\* C2: in the sweep's timeline every gap between two consecutive cuts is at
\* least min_cut_interval (the cut at t = 0 has no gap before it).
C2_GapsAtLeastMin ==
    InSweep => \A g \in Gaps(timeline.cuts) : g >= config.min_cut_interval

\* C3: when the loop body runs for a beat with
\* beat.time - last_cut_time >= max_cut_interval, it appends a cut at exactly
\* beat.time and sets last_cut_time to beat.time, whatever the beat's
\* strength and type, the energy and beat_sync_strength.
C3_ForceCut ==
    [][(pc = "body" /\ beat.time - last_cut_time >= config.max_cut_interval)
          => /\ timeline'.cuts = Append(timeline.cuts, beat.time)
             /\ Len(timeline'.clip_assignments) = Len(timeline.clip_assignments) + 1
             /\ last_cut_time' = beat.time]_vars

\* C3 witness: with beat_sync_strength = 0 a beat of strength 0 that is not a
\* downbeat, at max_cut_interval or more after the last cut, has been cut on.
C3_ForcedCutTaken ==
    /\ pc = "loop"
    /\ config.beat_sync_strength = 0
    /\ beat.strength = 0
    /\ beat.beat_type = "Beat"
    /\ Len(timeline.cuts) >= 2
    /\ last_cut_time = beat.time
    /\ timeline.cuts[Len(timeline.cuts)] = beat.time
    /\ beat.time - timeline.cuts[Len(timeline.cuts) - 1] >= config.max_cut_interval

\* The average energy within 1.0 s of the current beat is above 0.7 / below 0.3.
HighEnergyAtBeat ==
    LET e == average_energy_in_range(energy_levels, beat.time - 2, beat.time + 2)
    IN  e[1] > 7 * e[2]

LowEnergyAtBeat ==
    LET e == average_energy_in_range(energy_levels, beat.time - 2, beat.time + 2)
    IN  e[1] < 3 * e[2]

LastClip(tl) == tl.clip_assignments[Len(tl.clip_assignments)]

\* C4: on every cut of the sweep the assigned clip id is the previously
\* assigned clip id advanced by one position modulo the pool size.
C4_RoundRobin ==
    [][CutMade => LastClip(timeline') = (LastClip(timeline) % num_clips) + 1]_vars

\* C4 amended: on every cut of the sweep the assigned clip id is the
\* previously assigned one advanced by one position modulo the pool size,
\* unless the average energy within 1.0 s of the beat is above 0.7 and the pool
\* has more than 2 clips, or it is below 0.3 (in particular when no energy
\* sample lies within 1.0 s of the beat) and the pool has more than 1 clip;
\* the clip is then one of the upper half (n + 1) / 2 .. n, respectively of
\* the lower half 1 .. max(n / 2, 1), of the pool.
C4_RoundRobinAtMidEnergy ==
    [][CutMade
          => /\ current_clip' = LastClip(timeline')
             /\ IF HighEnergyAtBeat /\ num_clips > 2
                THEN LastClip(timeline') \in ((num_clips + 1) \div 2)..num_clips
                ELSE IF LowEnergyAtBeat /\ num_clips > 1
                THEN LastClip(timeline') \in 1..Max2(num_clips \div 2, 1)
                ELSE LastClip(timeline') = (LastClip(timeline) % num_clips) + 1]_vars

\* C4 witness: with 3 clips, a cut at a beat of medium energy has just moved
\* the rotation from clip 2 to clip 3.
C4_RotationAdvanced ==
    /\ pc = "loop"
    /\ num_clips = 3
    /\ Len(timeline.cuts) >= 3
    /\ timeline.cuts[Len(timeline.cuts)] = beat.time
    /\ ~HighEnergyAtBeat /\ ~LowEnergyAtBeat
    /\ timeline.clip_assignments[Len(timeline.cuts) - 1] = 2
    /\ LastClip(timeline) = 3

(***************************************************************************)
(* Properties of the post-pass                                             *)
(***************************************************************************)
\* generate_timeline runs the post-pass and returns.
PostPass == pc = "loop" /\ pc' = "done"

Times(tl) == {tl.cuts[k] : k \in 1..Len(tl.cuts)}

Injected == Times(timeline') \ Times(timeline)

\* C5: the post-pass injects cuts only when some clip id of the pool is unused
\* and the number of cuts is below duration / 3 (duration in seconds); it
\* injects at most 3 cuts, only at 0.3, 0.5 and 0.7 of the duration.
C5_DistributionPass ==
    [][(PostPass /\ Len(timeline'.cuts) > Len(timeline.cuts))
          => /\ \E c \in 1..num_clips :
                    \A k \in 1..Len(timeline.clip_assignments) :
                        timeline.clip_assignments[k] # c
             /\ 2 * 3 * Len(timeline.cuts) < duration
             /\ Len(timeline'.cuts) - Len(timeline.cuts) <= 3
             /\ \A t \in Injected : 10 * t \in {3 * duration, 5 * duration, 7 * duration}]_vars

\* C5 amended: the post-pass injects cuts only when the sweep left fewer than
\* 3 cuts and the duration is above 10 s; with n = ceil(duration / 8 s) it
\* injects at most n - 1 cuts, only at the times i * duration / n, 0 < i < n,
\* and none within 2 s of a cut of the sweep; the cuts of the sweep are kept.
C5_CoveragePass ==
    [][(PostPass /\ Len(timeline'.cuts) > Len(timeline.cuts))
          => LET n == (duration + 15) \div 16
             IN  /\ Len(timeline.cuts) < 3
                 /\ duration > 20
                 /\ Len(timeline'.cuts) - Len(timeline.cuts) <= n - 1
                 /\ Times(timeline) \subseteq Times(timeline')
                 /\ \A t \in Injected :
                        /\ \E i \in 1..(n - 1) : t * n = i * duration
                        /\ \A u \in Times(timeline) : Abs(t - u) >= 4]_vars

\* C5 witness: a 40 s track with at most one beat has been given its four
\* coverage cuts at 8, 16, 24 and 32 s.
C5_CoverageInjected ==
    /\ pc = "done"
    /\ result = "Ok"
    /\ duration = 80
    /\ beat_count <= 1
    /\ {16, 32, 48, 64} \subseteq Times(timeline)
    /\ Len(timeline.cuts) >= 5

(***************************************************************************)
(* Properties of generate_timeline's result                                *)
(***************************************************************************)
\* C6: generate_timeline returns an error whenever the clip pool is empty or
\* the analysis has no beats.
C6_ErrorOnEmptyInput ==
    (pc = "done" /\ (num_clips = 0 \/ beat_count = 0)) => result = "Err"

\* C6 amended: generate_timeline returns an error, and no timeline, exactly
\* when the clip pool is empty; with clips and no beats it returns a timeline
\* that starts with the cut (0.0, clip 1).
C6_ErrorIffEmptyPool ==
    pc = "done"
        => /\ result = "Err" <=> num_clips = 0
           /\ result = "Err" => timeline = new
           /\ (num_clips > 0 /\ beat_count = 0)
                  => /\ result = "Ok"
                     /\ timeline.cuts[1] = 0
                     /\ timeline.clip_assignments[1] = 1

\* C6 witness: a timeline has been returned for an analysis without beats.
C6_NoBeatsTimeline ==
    pc = "done" /\ beat_count = 0 /\ num_clips > 0 /\ result = "Ok"

(***************************************************************************)
(* Properties of the cut decision between the two intervals                *)
(***************************************************************************)
\* The loop body runs for a beat with
\* min_cut_interval <= time_since_last_cut < max_cut_interval.
BetweenIntervals ==
    /\ pc = "body"
    /\ beat.time - last_cut_time >= config.min_cut_interval
    /\ beat.time - last_cut_time < config.max_cut_interval

\* Sum and count of the rms samples within 0.5 s of the current beat.
EnergyNearBeat ==
    average_energy_in_range(energy_levels, beat.time - 1, beat.time + 1)

IsDownbeat == IF beat.beat_type = "Downbeat" THEN 1 ELSE 0

\* C7: between the two intervals, and up to the midpoint of
\* [min_cut_interval, max_cut_interval] where the claimed time factor is 0,
\* the sweep cuts iff
\*   beat_sync_strength * (0.5 strength + 0.4 energy + 0.3 [Downbeat]) >= 0.4.
C7_ClaimedWeights ==
    [][(/\ BetweenIntervals
        /\ 2 * (beat.time - last_cut_time)
               <= config.min_cut_interval + config.max_cut_interval)
          => LET E == EnergyNearBeat[1]
                 L == EnergyNearBeat[2]
             IN  CutMade <=>
                     config.beat_sync_strength
                         * (5 * beat.strength * L + 4 * E + 30 * IsDownbeat * L)
                       >= 400 * L]_vars

\* C7 amended: between the two intervals the sweep cuts iff
\*   beat_sync_strength * (0.4 strength + 0.3 energy + 0.2 [Downbeat]
\*                         + 0.1 time_factor) >= 0.6,
\* with time_factor = (time_since_last_cut - min_cut_interval)
\*                    / (max_cut_interval - min_cut_interval),
\* which grows from 0 at min_cut_interval; energy is the average rms within
\* 0.5 s of the beat, 0 when there is no sample.
C7_CodeWeights ==
    [][BetweenIntervals
          => LET E == EnergyNearBeat[1]
                 L == EnergyNearBeat[2]
                 D == config.max_cut_interval - config.min_cut_interval
                 T == beat.time - last_cut_time - config.min_cut_interval
             IN  CutMade <=>
                     config.beat_sync_strength
                         * (4 * beat.strength * L * D + 3 * E * D
                            + 20 * IsDownbeat * L * D + 10 * T * L)
                       >= 600 * L * D]_vars

\* C7 witness: a cut has been made between the two intervals on a weighted sum
\* of exactly 0.6: strength 1.0, energy 0.5, no downbeat, time factor 0.5.
C7_CutAtThreshold ==
    /\ pc = "loop"
    /\ config = [min_cut_interval |-> 2, max_cut_interval |-> 6,
                 beat_sync_strength |-> 10]
    /\ beat = [time |-> 6, strength |-> 10, beat_type |-> "Beat"]
    /\ timeline.cuts = <<0, 2, 6>>
    /\ Len(energy_levels) = 3
    /\ energy_levels[3].rms = 5

(***************************************************************************)
(* Properties of CompositionTimeline                                       *)
(***************************************************************************)
\* How many times the pair (time, clip) sits at one index of the timeline.
Count(tl, p) ==
    Cardinality({k \in 1..Len(tl.cuts) :
                    k <= Len(tl.clip_assignments)
                    /\ <<tl.cuts[k], tl.clip_assignments[k]>> = p})

AllPairs == ApiTimes \X ApiClips

NonDecreasing(cuts) == \A k \in 1..(Len(cuts) - 1) : cuts[k] <= cuts[k + 1]

\* C8: after every add_cut and sort_cuts the two vectors have equal length;
\* add_cut(t, c) adds exactly one occurrence of the pair (t, c), at the end,
\* and leaves every earlier pair at its index; sort_cuts keeps the multiset of
\* (time, clip) pairs.
C8_PairsKept ==
    [][/\ Len(timeline'.cuts) = Len(timeline'.clip_assignments)
       /\ CallSortCuts
              => \A p \in AllPairs : Count(timeline', p) = Count(timeline, p)
       /\ \A t \in ApiTimes, c \in ApiClips :
              CallAddCut(t, c)
                  => /\ \A p \in AllPairs :
                            Count(timeline', p)
                                = Count(timeline, p) + (IF p = <<t, c>> THEN 1 ELSE 0)
                     /\ \A k \in 1..Len(timeline.cuts) :
                            /\ timeline'.cuts[k] = timeline.cuts[k]
                            /\ timeline'.clip_assignments[k] = timeline.clip_assignments[k]
      ]_vars

\* C8 witness: the timeline of test_timeline_operations, cuts added out of
\* order and then sorted, each time with the clip it was added with.
C8_SortedAligned ==
    /\ pc = "sort_cuts"
    /\ timeline = [cuts |-> <<0, 2, 4>>, clip_assignments |-> <<1, 2, 1>>]

\* C9: sort_cuts on a timeline whose cuts are in non-decreasing time order
\* changes neither cuts nor clip_assignments, pairs of equal time included.
C9_SortIdempotent ==
    [][(CallSortCuts /\ NonDecreasing(timeline.cuts)) => timeline' = timeline]_vars

\* C9 witness: sort_cuts has returned a timeline of equal times whose clips
\* are in the order 2, 1: a stable sort yields it only from that same,
\* already sorted timeline.
C9_SortedTwiceWithTies ==
    /\ pc = "sort_cuts"
    /\ timeline = [cuts |-> <<2, 2>>, clip_assignments |-> <<2, 1>>]

\* C10: segment_duration(i, total) returns cuts[i+1] - cuts[i] when i is not
\* the last index, total - cuts[i] when it is, 0 when i >= len(cuts), and
\* leaves the timeline as it was (indices 0-based as in the source).
C10_SegmentDuration ==
    [][\A i \in 0..(MaxCuts + 1), total \in ApiTotals :
           CallSegmentDuration(i, total)
               => /\ timeline' = timeline
                  /\ i >= Len(timeline.cuts) => ret' = 0
                  /\ i = Len(timeline.cuts) - 1 => ret' = total - timeline.cuts[i + 1]
                  /\ i < Len(timeline.cuts) - 1
                         => ret' = timeline.cuts[i + 2] - timeline.cuts[i + 1]]_vars

\* C10 witness: on the cuts 0, 2 s with total 3.5 s, segment_duration has
\* returned 1.5 s: the last segment, total - cuts[1].
C10_LastSegmentReturned ==
    /\ pc = "segment_duration"
    /\ timeline.cuts = <<0, 4>>
    /\ ret = 3

(***************************************************************************)
(* Beat tracking: AudioAnalyzer::track_beats and its two paths,            *)
(* src/src/audio/analyzer.rs.                                              *)
(*                                                                         *)
(* Numbers.  Times are integers counted in eighths of a second and rms     *)
(* energies in quarters, all exact in f64 and f32; tempi are whole BPM     *)
(* whose minimum beat interval 60/max_bpm is a whole number of eighths.    *)
(* A beat strength is a fraction <<numerator, denominator>>.               *)
(***************************************************************************)
MaxOnsets == 5
MaxLevels == 10

\* Onset times (eighths of a second) the onset list is drawn from.
OnsetTimes == {0, 1, 2, 4, 8, 12}
\* rms energies (quarters): 0.25, 0.5, 0.75.
RmsValues == {1, 2, 3}
\* (min_bpm, max_bpm) pairs that AnalysisConfig::validate accepts; the minimum
\* beat intervals are 0.5 s, 0.25 s and 1.5 s.
BpmRanges == {<<60, 120>>, <<60, 240>>, <<20, 40>>}
MinEnergyLevels == 10

Min2(a, b) == IF a <= b THEN a ELSE b

\* delta >= 60.0 / max_bpm at half the interval.
half_beat_interval_reached(delta, max_bpm) == delta * max_bpm >= 240

\* delta >= 60.0 / max_bpm, i.e. delta >= min_beat_interval; 60 s are 480
\* eighths.
min_beat_interval_reached(delta, max_bpm) == delta * max_bpm >= 480

\* The filter loop over the onsets; last_onset_time starts at -1.0 s.
RECURSIVE filter_onsets(_, _, _, _)
filter_onsets(onsets, max_bpm, last_onset_time, filtered_onsets) ==
    IF onsets = <<>> THEN filtered_onsets
    ELSE LET onset_time == Head(onsets)
         IN  IF min_beat_interval_reached(onset_time - last_onset_time, max_bpm)
             THEN filter_onsets(Tail(onsets), max_bpm, onset_time,
                                Append(filtered_onsets, onset_time))
             ELSE filter_onsets(Tail(onsets), max_bpm, last_onset_time,
                                filtered_onsets)

\* rms of the energy level nearest in time (the first of equally near ones, as
\* Iterator::min_by returns), 0.0 when there is none.
local_energy_at(levels, time) ==
    IF levels = <<>> THEN 0
    ELSE LET d(k) == Abs(levels[k].time - time)
             n == CHOOSE k \in 1..Len(levels) :
                      \A j \in 1..Len(levels) :
                          /\ d(k) <= d(j)
                          /\ j < k => d(j) > d(k)
         IN  levels[n].rms

track_beats_from_onsets(onsets, levels, cfg) ==
    LET filtered_onsets == filter_onsets(onsets, cfg.max_bpm, -8, <<>>)
    IN  [i \in 1..Len(filtered_onsets) |->
            LET local_energy == local_energy_at(levels, filtered_onsets[i])
                strength == <<Min2(local_energy * 2, 4), 4>>
            IN  [time |-> filtered_onsets[i],
                 strength |-> strength,
                 beat_type |-> BeatTypeAt(i - 1),
                 onset_value |-> strength,
                 local_energy |-> local_energy]]

RECURSIVE SumSeq(_)
SumSeq(s) == IF s = <<>> THEN 0 ELSE Head(s) + SumSeq(Tail(s))

RECURSIVE MaxFrom(_, _)
MaxFrom(acc, s) == IF s = <<>> THEN acc ELSE MaxFrom(Max2(acc, Head(s)), Tail(s))

energies(levels) == [k \in 1..Len(levels) |-> levels[k].rms]

\* rms > mean_energy + (max_energy - mean_energy) * 0.3, multiplied through by
\* 10 * len.
above_energy_threshold(rms, levels) ==
    LET n == Len(levels)
        sum == SumSeq(energies(levels))
        max_energy == MaxFrom(0, energies(levels))
    IN  10 * n * rms > 10 * sum + 3 * (n * max_energy - sum)

\* energy_levels[window_start..window_end] for the 0-based index i: from
\* i - 2 (not below 0) up to, but excluding, i + 2 (not beyond the end).
is_local_max(levels, i) ==
    LET window_start == Max2(i - 2, 0)
        window_end == Min2(i + 2, Len(levels))
    IN  \A k \in (window_start + 1)..window_end :
            levels[k].rms <= levels[i + 1].rms

\* The loop over the energy levels; i is the 0-based index.
RECURSIVE energy_loop(_, _, _, _, _)
energy_loop(levels, max_bpm, i, last_beat_time, beats) ==
    IF i >= Len(levels) THEN beats
    ELSE LET energy == levels[i + 1]
             n == Len(levels)
             sum == SumSeq(energies(levels))
             max_energy == MaxFrom(0, energies(levels))
         IN  IF /\ above_energy_threshold(energy.rms, levels)
                /\ is_local_max(levels, i)
                /\ min_beat_interval_reached(energy.time - last_beat_time, max_bpm)
             THEN energy_loop(levels, max_bpm, i + 1, energy.time,
                      Append(beats,
                          [time |-> energy.time,
                           strength |-> <<n * energy.rms - sum, n * max_energy - sum>>,
                           beat_type |-> BeatTypeAt(Len(beats)),
                           onset_value |-> energy.rms,
                           local_energy |-> energy.rms]))
             ELSE energy_loop(levels, max_bpm, i + 1, last_beat_time, beats)

track_beats_from_energy(levels, cfg) ==
    IF Len(levels) < MinEnergyLevels THEN <<>>
    ELSE energy_loop(levels, cfg.max_bpm, 0, -8, <<>>)

track_beats(onsets, levels, cfg) ==
    LET beats == IF onsets # <<>>
                 THEN track_beats_from_onsets(onsets, levels, cfg)
                 ELSE <<>>
    IN  IF beats = <<>> /\ levels # <<>>
        THEN track_beats_from_energy(levels, cfg)
        ELSE beats

\* The composition engine is not running.
EngineIdle ==
    /\ config = [min_cut_interval |-> 2, max_cut_interval |-> 16,
                 beat_sync_strength |-> 8]
    /\ num_clips = 0
    /\ duration = 0
    /\ energy_levels = <<>>
    /\ beat = NoBeat
    /\ beat_count = 0
    /\ timeline = new
    /\ current_clip = 0
    /\ last_cut_time = 0
    /\ result = "none"
    /\ ret = 0

composition == <<engine, timeline, ret>>

\* Strictly ascending onset lists, as detect_onsets produces them (one onset
\* per frame at most, frames in time order).
RECURSIVE Ascending(_)
Ascending(S) ==
    IF S = {} THEN <<>>
    ELSE LET lo == CHOOSE x \in S : \A y \in S : x <= y
         IN  <<lo>> \o Ascending(S \ {lo})

OnsetLists == {Ascending(S) : S \in {T \in SUBSET OnsetTimes : Cardinality(T) <= MaxOnsets}}

\* Energy levels are sampled at a fixed hop from t = 0, here every 0.25 s.
EnergyLevelsOf(p) == [k \in 1..Len(p) |-> [time |-> 2 * (k - 1), rms |-> p[k]]]

\* Short energy curves, and long ones (one below MaxLevels, and MaxLevels)
\* that are free in their first and last three samples and quiet between.
ShortProfiles == UNION { [1..n -> RmsValues] : n \in 0..2 }
LongProfiles ==
    { a \o [k \in 1..(n - 6) |-> 1] \o b :
        a \in [1..3 -> RmsValues], b \in [1..3 -> RmsValues],
        n \in {MaxLevels - 1, MaxLevels} }

\* Onset lists with short energy curves (the onset path), and empty or
\* single-onset lists with long energy curves (the fallback path).
TrackerInputs ==
    (OnsetLists \X ShortProfiles)
        \cup ({o \in OnsetLists : Len(o) <= 1} \X LongProfiles)

InitBeats ==
    /\ EngineIdle
    /\ pc = "input"
    /\ \E r \in BpmRanges :
           analyzer = [AnalysisDefault EXCEPT !.min_bpm = r[1], !.max_bpm = r[2]]
    /\ \E i \in TrackerInputs :
           input = [onsets |-> i[1], energy_levels |-> EnergyLevelsOf(i[2])]
    /\ output = "none"

TrackBeats ==
    /\ pc = "input"
    /\ output' = track_beats(input.onsets, input.energy_levels, analyzer)
    /\ pc' = "track_beats"
    /\ UNCHANGED <<analyzer, input, composition>>

NextBeats == TrackBeats

SpecBeats == InitBeats /\ [][NextBeats]_vars

TimesOf(beats) == [k \in 1..Len(beats) |-> beats[k].time]

\* C11: the beats track_beats returns, from the onsets or from the energy
\* curve, have strictly increasing times, and adjacent beats are at least
\* 60/max_bpm apart.
C11_BeatSpacing ==
    pc = "track_beats" =>
        \A k \in 1..(Len(output) - 1) :
            /\ output[k].time < output[k + 1].time
            /\ (output[k + 1].time - output[k].time) * analyzer.max_bpm >= 480

\* Beats from the onset path: an onset was filtered out, and two of the beats
\* kept are exactly 60/max_bpm apart.
C11_OnsetsThinned ==
    /\ pc = "track_beats"
    /\ Len(output) < Len(input.onsets)
    /\ TimesOf(output) = filter_onsets(input.onsets, analyzer.max_bpm, -8, <<>>)
    /\ \E k \in 1..(Len(output) - 1) :
           (output[k + 1].time - output[k].time) * analyzer.max_bpm = 480

\* Greedy keep-first filtering: the first onset is kept, a later one is kept
\* iff it is at least 60/max_bpm after the onset kept last.
RECURSIVE KeepFirst(_, _, _)
KeepFirst(onsets, max_bpm, kept) ==
    IF onsets = <<>> THEN kept
    ELSE IF kept = <<>> \/ (Head(onsets) - kept[Len(kept)]) * max_bpm >= 480
         THEN KeepFirst(Tail(onsets), max_bpm, Append(kept, Head(onsets)))
         ELSE KeepFirst(Tail(onsets), max_bpm, kept)

\* C20: for a valid config and an ascending onset list, the beats are placed
\* on the onsets that greedy keep-first filtering keeps: the first onset
\* always, a later one iff it is at least 60/max_bpm after the last kept.
C20_GreedyKeepFirst ==
    (pc = "track_beats" /\ input.onsets # <<>>) =>
        TimesOf(output) = KeepFirst(input.onsets, analyzer.max_bpm, <<>>)

\* C21: in the beats track_beats returns, from either path, the beat at
\* 0-based position i is a Downbeat iff i is a multiple of 4 and a Beat
\* otherwise; no beat is an Offbeat or an Onset.
C21_BeatTypes ==
    pc = "track_beats" =>
        \A k \in 1..Len(output) :
            /\ output[k].beat_type \in {"Downbeat", "Beat"}
            /\ output[k].beat_type = "Downbeat" <=> (k - 1) % 4 = 0

\* C21 witness: five beats were returned, the first and the fifth of them
\* downbeats and the three between them plain beats.
C21_FifthBeatDownbeat ==
    /\ pc = "track_beats"
    /\ Len(output) = 5
    /\ [k \in 1..5 |-> output[k].beat_type]
           = <<"Downbeat", "Beat", "Beat", "Beat", "Downbeat">>

(***************************************************************************)
(* Tempo estimation: AudioAnalyzer::estimate_tempo,                        *)
(* src/src/audio/analyzer.rs.                                              *)
(*                                                                         *)
(* Numbers.  Beat times are integers counted in tenths of a millisecond, so *)
(* that the quantization of an interval to whole milliseconds is a real    *)
(* rounding.  The times used are even, so no interval lies exactly half    *)
(* way between two milliseconds, and no interval lies exactly 50 ms from a *)
(* quantized one, so the decisions do not hang on floating-point rounding. *)
(* global_bpm and confidence are fractions <<numerator, denominator>>.     *)
(***************************************************************************)
MaxTempoBeats == 4

\* Beat times (tenths of a millisecond) the beat sequence is drawn from.
TempoBeatTimes == {0, 5000, 5002, 10000, 10512, 15000, 15504, 19000}
\* (min_bpm, max_bpm): the default range and a narrow one.
TempoRanges == {<<60, 200>>, <<100, 130>>}

\* TempoMap of the two early returns: 120.0 BPM with confidence 0.1.
FallbackTempo == [global_bpm |-> <<120, 1>>, confidence |-> <<1, 10>>]

\* beats.windows(2).map(|pair| pair[1].time - pair[0].time)
intervals_of(beats) ==
    [k \in 1..(Len(beats) - 1) |-> beats[k + 1].time - beats[k].time]

\* The filter without its upper limit: 60.0 / interval >= min_bpm.
interval_above_min(interval, cfg) ==
    /\ interval > 0
    /\ interval * cfg.min_bpm <= 600000

\* The filter on an interval: bpm = 60.0 / interval lies in
\* [min_bpm, max_bpm]; 60 s are 600000 tenths of a millisecond.  An interval
\* of zero gives an infinite bpm, which is above max_bpm.
interval_in_range(interval, cfg) ==
    /\ interval > 0
    /\ interval * cfg.min_bpm <= 600000
    /\ interval * cfg.max_bpm >= 600000

surviving_intervals(beats, cfg) ==
    SelectSeq(intervals_of(beats), LAMBDA interval : interval_in_range(interval, cfg))

\* (interval * 1000.0).round() as i64, for an interval that is not negative.
quantized_ms(interval) == (interval + 5) \div 10

\* interval_counts[ms]: how many intervals were quantized to ms.
interval_count(intervals, ms) ==
    Cardinality({k \in 1..Len(intervals) : quantized_ms(intervals[k]) = ms})

\* The keys max_by_key may return: those of the highest count.  Which of
\* several the iteration order of the HashMap favours is not determined.
most_common_interval_ms(intervals) ==
    LET keys == {quantized_ms(intervals[k]) : k \in 1..Len(intervals)}
    IN  {ms \in keys :
            \A other \in keys :
                interval_count(intervals, ms) >= interval_count(intervals, other)}

\* (interval - most_common_interval).abs() < 0.1
within_100ms(interval, ms) == Abs(interval - 10 * ms) < 1000

\* (interval - most_common_interval).abs() < 0.05
within_50ms(interval, ms) == Abs(interval - 10 * ms) < 500

tempo_from(intervals, ms) ==
    LET matching_intervals ==
            Cardinality({k \in 1..Len(intervals) : within_50ms(intervals[k], ms)})
    IN  [global_bpm |-> <<60000, ms>>,
         confidence |-> <<Min2(matching_intervals, Len(intervals)), Len(intervals)>>]

\* The TempoMaps estimate_tempo can return for these beats.
estimate_tempo(beats, cfg) ==
    IF Len(beats) < 2 THEN {FallbackTempo}
    ELSE LET intervals == surviving_intervals(beats, cfg)
         IN  IF intervals = <<>> THEN {FallbackTempo}
             ELSE {tempo_from(intervals, ms) : ms \in most_common_interval_ms(intervals)}

TempoBeatLists ==
    {[k \in 1..Len(s) |-> [time |-> s[k]]] :
        s \in {Ascending(S) : S \in {T \in SUBSET TempoBeatTimes :
                                        Cardinality(T) <= MaxTempoBeats}}}

InitTempo ==
    /\ EngineIdle
    /\ pc = "input"
    /\ \E r \in TempoRanges :
           analyzer = [AnalysisDefault EXCEPT !.min_bpm = r[1], !.max_bpm = r[2]]
    /\ \E b \in TempoBeatLists : input = [beats |-> b]
    /\ output = "none"

EstimateTempo ==
    /\ pc = "input"
    /\ \E tempo \in estimate_tempo(input.beats, analyzer) :
           output' = [result |-> "Ok", tempo |-> tempo]
    /\ pc' = "estimate_tempo"
    /\ UNCHANGED <<analyzer, input, composition>>

NextTempo == EstimateTempo

SpecTempo == InitTempo /\ [][NextTempo]_vars

\* Inter-beat intervals whose implied BPM lies in [min_bpm, max_bpm].
InRangeIntervals ==
    {k \in 1..(Len(input.beats) - 1) :
        LET interval == input.beats[k + 1].time - input.beats[k].time
        IN  /\ interval > 0
            /\ 600000 >= analyzer.min_bpm * interval
            /\ 600000 <= analyzer.max_bpm * interval}

\* C12: with fewer than 2 beats, or with no inter-beat interval whose implied
\* BPM lies in [min_bpm, max_bpm], estimate_tempo returns Ok with exactly
\* global_bpm = 120.0 and confidence = 0.1.
C12_TempoFallback ==
    (pc = "estimate_tempo" /\ (Len(input.beats) < 2 \/ InRangeIntervals = {})) =>
        /\ output.result = "Ok"
        /\ output.tempo.global_bpm = <<120, 1>>
        /\ output.tempo.confidence = <<1, 10>>

\* Three beats, every interval out of range, and the fallback was returned.
C12_NoIntervalSurvived ==
    /\ pc = "estimate_tempo"
    /\ Len(input.beats) >= 3
    /\ InRangeIntervals = {}
    /\ output.tempo = FallbackTempo

IntervalAt(k) == input.beats[k + 1].time - input.beats[k].time

\* How many in-range intervals round to ms milliseconds.
Votes(ms) == Cardinality({k \in InRangeIntervals : (IntervalAt(k) + 5) \div 10 = ms})

\* The modal 1 ms-quantized intervals.
ModalMs ==
    {ms \in {(IntervalAt(k) + 5) \div 10 : k \in InRangeIntervals} :
        \A k \in InRangeIntervals : Votes(ms) >= Votes((IntervalAt(k) + 5) \div 10)}

\* C13: the confidence estimate_tempo returns lies in [0, 1]; when some
\* interval is in range it is the fraction of the in-range intervals that lie
\* within 50 ms of the modal 1 ms-quantized interval.
C13_Confidence ==
    pc = "estimate_tempo" =>
        LET c == output.tempo.confidence
        IN  /\ c[2] > 0 /\ 0 <= c[1] /\ c[1] <= c[2]
            /\ (Len(input.beats) >= 2 /\ InRangeIntervals # {}) =>
                   \E ms \in ModalMs :
                       LET near == {k \in InRangeIntervals :
                                       Abs(IntervalAt(k) - 10 * ms) < 500}
                       IN  c[1] * Cardinality(InRangeIntervals) = Cardinality(near) * c[2]

\* Three intervals in range, two of them within 50 ms of the modal one and
\* one not: the confidence is 2/3.
C13_PartialConfidence ==
    /\ pc = "estimate_tempo"
    /\ Cardinality(InRangeIntervals) = 3
    /\ output.tempo.confidence = <<2, 3>>

(***************************************************************************)
(* AnalysisConfig::validate (src/src/audio/types.rs) and the stages of     *)
(* AudioAnalyzer::analyze (src/src/audio/analyzer.rs).  A message is the   *)
(* sequence of its words; beat_sensitivity is counted in tenths.           *)
(***************************************************************************)
WindowSizes == {0, 1, 6, 8, 1000}
HopSizes == {2, 8}
\* (min_bpm, max_bpm): the default, an empty range and an inverted one.
ConfigBpmRanges == {<<60, 200>>, <<120, 120>>, <<200, 60>>}
\* beat_sensitivity: the default 0.7, and 1.1.
Sensitivities == {7, 11}
\* energy_window_size (tenths of a second): 0.0 and the default 0.1.
EnergyWindowSizes == {0, 1}
\* audio_data.sample_rate (Hz).
AnalyzedSampleRates == {44100}

is_a_multiple_of_two(n) == n % 2 = 0

\* usize::is_power_of_two
RECURSIVE is_power_of_two(_)
is_power_of_two(n) ==
    \/ n = 1
    \/ n > 1 /\ n % 2 = 0 /\ is_power_of_two(n \div 2)

\* AnalysisConfig::validate: "Ok", or the message of the first check failed.
validate(cfg) ==
    IF cfg.window_size = 0 \/ ~is_power_of_two(cfg.window_size)
    THEN <<"Window", "size", "must", "be", "a", "power", "of", "two">>
    ELSE IF cfg.hop_size > cfg.window_size
    THEN <<"Hop", "size", "cannot", "be", "larger", "than", "window", "size">>
    ELSE IF cfg.min_bpm >= cfg.max_bpm
    THEN <<"Minimum", "BPM", "must", "be", "less", "than", "maximum", "BPM">>
    ELSE IF ~(0 <= cfg.beat_sensitivity /\ cfg.beat_sensitivity <= 10)
    THEN <<"Beat", "sensitivity", "must", "be", "between", "0.0", "and", "1.0">>
    ELSE "Ok"

\* The stages analyze runs after validation, in order.
stages_of(cfg) ==
    <<"mono_samples", "calculate_energy_levels", "detect_onsets", "track_beats",
      "estimate_tempo">>
        \o (IF cfg.calculate_spectral_features
            THEN <<"calculate_spectral_features">> ELSE <<>>)
        \o (IF cfg.detect_phrases THEN <<"detect_phrases">> ELSE <<>>)

\* (energy_window_size * sample_rate as f64) as usize: truncated, and 0 for
\* a negative product.
window_samples_of(cfg, sample_rate) ==
    IF cfg.energy_window_size <= 0 THEN 0
    ELSE (cfg.energy_window_size * sample_rate) \div 10

\* A hop of a whole window.
whole_window_hop(window_samples) == window_samples

\* hop_samples: 50% overlap.
hop_samples_of(window_samples) == window_samples \div 2

\* samples.windows(window_samples).step_by(hop_samples): slice::windows
\* panics on a window of 0 samples, Iterator::step_by on a step of 0.
windowing_panics(cfg, sample_rate) ==
    \/ window_samples_of(cfg, sample_rate) = 0
    \/ hop_samples_of(window_samples_of(cfg, sample_rate)) = 0

\* The stages that run the FFT, which can fail.
FftStages == {"detect_onsets", "calculate_spectral_features"}

InitAnalyze ==
    /\ EngineIdle
    /\ pc = "input"
    /\ \E w \in WindowSizes, h \in HopSizes, r \in ConfigBpmRanges,
          s \in Sensitivities, e \in EnergyWindowSizes,
          p \in BOOLEAN, f \in BOOLEAN :
           analyzer = [AnalysisDefault EXCEPT
                           !.window_size = w, !.hop_size = h,
                           !.min_bpm = r[1], !.max_bpm = r[2],
                           !.beat_sensitivity = s,
                           !.energy_window_size = e,
                           !.detect_phrases = p,
                           !.calculate_spectral_features = f]
    /\ \E sr \in AnalyzedSampleRates : input = [sample_rate |-> sr]
    /\ output = "none"

\* analyze, up to the `?` on the validation result.
AnalyzeValidate ==
    /\ pc = "input"
    /\ LET v == validate(analyzer)
       IN  IF v = "Ok"
           THEN /\ output' = [result |-> "none", error |-> "none",
                              stages |-> <<>>, analysis |-> "none"]
                /\ pc' = "stages"
           ELSE /\ output' = [result |-> "Err",
                              error |-> [kind |-> "InvalidParameters", details |-> v],
                              stages |-> <<>>, analysis |-> "none"]
                /\ pc' = "done"
    /\ UNCHANGED <<analyzer, input, composition>>

\* The next stage is calculate_energy_levels and panics in its windowing.
stage_panics(cfg, sample_rate, stage) ==
    stage = "calculate_energy_levels" /\ windowing_panics(cfg, sample_rate)

\* The next stage runs and returns Ok.
AnalyzeStage ==
    /\ pc = "stages"
    /\ Len(output.stages) < Len(stages_of(analyzer))
    /\ ~stage_panics(analyzer, input.sample_rate,
                     stages_of(analyzer)[Len(output.stages) + 1])
    /\ output' = [output EXCEPT
                     !.stages = Append(@, stages_of(analyzer)[Len(@) + 1])]
    /\ UNCHANGED <<pc, analyzer, input, composition>>

\* The next stage runs the FFT, which fails: `?` returns its error.
AnalyzeStageFails ==
    /\ pc = "stages"
    /\ Len(output.stages) < Len(stages_of(analyzer))
    /\ stages_of(analyzer)[Len(output.stages) + 1] \in FftStages
    /\ output' = [output EXCEPT
                     !.result = "Err",
                     !.error = [kind |-> "AnalysisFailed",
                                details |-> <<"FFT", "processing", "failed">>],
                     !.stages = Append(@, stages_of(analyzer)[Len(@) + 1])]
    /\ pc' = "done"
    /\ UNCHANGED <<analyzer, input, composition>>

\* The next stage panics: analyze never returns.
AnalyzeStagePanics ==
    /\ pc = "stages"
    /\ Len(output.stages) < Len(stages_of(analyzer))
    /\ stage_panics(analyzer, input.sample_rate,
                    stages_of(analyzer)[Len(output.stages) + 1])
    /\ output' = [output EXCEPT
                     !.result = "panic",
                     !.stages = Append(@, stages_of(analyzer)[Len(@) + 1])]
    /\ pc' = "done"
    /\ UNCHANGED <<analyzer, input, composition>>

\* Every stage has run: Ok(AudioAnalysis { .. }).
AnalyzeReturn ==
    /\ pc = "stages"
    /\ output.stages = stages_of(analyzer)
    /\ output' = [output EXCEPT !.result = "Ok", !.analysis = "AudioAnalysis"]
    /\ pc' = "done"
    /\ UNCHANGED <<analyzer, input, composition>>

NextAnalyze ==
    AnalyzeValidate \/ AnalyzeStage \/ AnalyzeStageFails \/ AnalyzeStagePanics
        \/ AnalyzeReturn

SpecAnalyze == InitAnalyze /\ [][NextAnalyze]_vars

\* phrase occurs in message as consecutive words.
Contains(message, phrase) ==
    \E i \in 0..(Len(message) - Len(phrase)) :
        \A k \in 1..Len(phrase) : message[i + k] = phrase[k]

BadWindowSize ==
    \/ analyzer.window_size = 0
    \/ ~(\E e \in 0..10 : 2^e = analyzer.window_size)

\* C14: once analyze has acted on a config whose window_size is zero or not a
\* power of two, or whose min_bpm >= max_bpm, it has returned an
\* InvalidParameters error, no analysis stage has run and there is no
\* analysis; for a bad window_size the message contains "power of two".
C14_InvalidConfigRejected ==
    (pc # "input" /\ (BadWindowSize \/ analyzer.min_bpm >= analyzer.max_bpm)) =>
        /\ pc = "done"
        /\ output.result = "Err"
        /\ output.error.kind = "InvalidParameters"
        /\ output.stages = <<>>
        /\ output.analysis = "none"
        /\ BadWindowSize => Contains(output.error.details, <<"power", "of", "two">>)

\* analyze has rejected a window_size of 1000, as test_config_validation
\* expects of validate.
C14_WindowRejected ==
    /\ pc = "done"
    /\ analyzer.window_size = 1000
    /\ output.result = "Err"
    /\ Contains(output.error.details, <<"power", "of", "two">>)

(***************************************************************************)
(* Video discovery: CompositionEngine::load_video_clips                    *)
(* (src/src/composition/engine.rs) with VideoClip::from_path, is_supported *)
(* and VideoSequence::add_clip (src/src/video/types.rs).  A file name is   *)
(* the sequence of its characters.                                         *)
(***************************************************************************)
MaxEntries == 3

\* Names of the entries the video directory is filled from.
FileNames ==
    [ClipOneMp4 |-> <<"0", "1", "_", "a", ".", "m", "p", "4">>,
     ClipTwoPng |-> <<"2", "_", "b", ".", "p", "n", "g">>,
     ClipOneAgain |-> <<"1", "_", "z", ".", "m", "p", "4">>,
     NoNumber |-> <<"x", "_", "c", ".", "m", "p", "4">>,
     NoUnderscore |-> <<"0", "3", ".", "m", "p", "4">>,
     TextFile |-> <<"0", "4", "_", "d", ".", "t", "x", "t">>,
     UpperCaseMp4 |-> <<"0", "5", "_", "e", ".", "M", "P", "4">>,
     HiddenMp4 |-> <<".", "0", "6", "_", "f", ".", "m", "p", "4">>,
     NoExtension |-> <<"0", "7", "_", "g">>,
     SubDirectory |-> <<"0", "8", "_", "h", ".", "m", "p", "4">>]

\* Every name as a file, but SubDirectory, which is a directory.
DirEntries ==
    {[name |-> FileNames[n], is_dir |-> n = "SubDirectory"] : n \in DOMAIN FileNames}

Digits == <<"0", "1", "2", "3", "4", "5", "6", "7", "8", "9">>

\* The characters used, in byte order (the order of OsString comparison).
CharOrder ==
    <<".", "0", "1", "2", "3", "4", "5", "6", "7", "8", "9", "M", "P", "_",
      "a", "b", "c", "d", "e", "f", "g", "h", "m", "n", "p", "t", "x", "z">>

Rank(c) == CHOOSE i \in 1..Len(CharOrder) : CharOrder[i] = c

RECURSIVE NameLess(_, _)
NameLess(a, b) ==
    IF b = <<>> THEN FALSE
    ELSE IF a = <<>> THEN TRUE
    ELSE IF Head(a) # Head(b) THEN Rank(Head(a)) < Rank(Head(b))
    ELSE NameLess(Tail(a), Tail(b))

\* entries.sort_by_key(|entry| entry.file_name())
RECURSIVE sort_by_file_name(_)
sort_by_file_name(entries) ==
    IF entries = {} THEN <<>>
    ELSE LET first == CHOOSE e \in entries :
                          \A o \in entries \ {e} : NameLess(e.name, o.name)
         IN  <<first>> \o sort_by_file_name(entries \ {first})

is_hidden_file(name) == name # <<>> /\ name[1] = "."

\* Position of the final '.' that is not the first character, 0 if none.
final_dot(name) ==
    LET dots == {i \in 2..Len(name) : name[i] = "."}
    IN  IF dots = {} THEN 0 ELSE CHOOSE i \in dots : \A j \in dots : j <= i

\* Path::file_stem and Path::extension of a file name.  An Option is a
\* sequence: None is <<>>, Some(x) is <<x>>.
file_stem(name) ==
    IF final_dot(name) = 0 THEN name ELSE SubSeq(name, 1, final_dot(name) - 1)

extension(name) ==
    IF final_dot(name) = 0 THEN <<>>
    ELSE <<SubSeq(name, final_dot(name) + 1, Len(name))>>

\* str::parse::<u32>().ok() of a short string: None unless it is a non-empty
\* run of decimal digits.
RECURSIVE digits_value(_, _)
digits_value(s, acc) ==
    IF s = <<>> THEN acc
    ELSE digits_value(Tail(s),
             10 * acc + (CHOOSE d \in 0..9 : Digits[d + 1] = Head(s)))

parse_u32(s) ==
    IF s = <<>> \/ \E i \in 1..Len(s) : \A d \in 1..10 : Digits[d] # s[i]
    THEN <<>>
    ELSE <<digits_value(s, 0)>>

\* VideoClip::from_path: None, or the clip parsed from NN_name.ext.
from_path(path) ==
    LET filename == file_stem(path)
        underscores == {i \in 1..Len(filename) : filename[i] = "_"}
    IN  IF underscores = {} THEN <<>>
        ELSE LET u == CHOOSE i \in underscores : \A j \in underscores : i <= j
                 sequence_number == parse_u32(SubSeq(filename, 1, u - 1))
             IN  IF sequence_number = <<>> THEN <<>>
                 ELSE <<[path |-> path,
                         sequence_number |-> sequence_number[1],
                         name |-> SubSeq(filename, u + 1, Len(filename))]>>

SupportedExtensions ==
    {<<"m", "p", "4">>, <<"a", "v", "i">>, <<"m", "o", "v">>, <<"m", "k", "v">>,
     <<"j", "p", "g">>, <<"j", "p", "e", "g">>, <<"p", "n", "g">>, <<"b", "m", "p">>}

is_supported(clip) == extension(clip.path) \in {<<e>> : e \in SupportedExtensions}

\* VideoSequence::add_clip: push, then a stable sort by sequence_number.
RECURSIVE insert_by_sequence_number(_, _)
insert_by_sequence_number(clips, clip) ==
    IF clips = <<>> THEN <<clip>>
    ELSE IF clips[Len(clips)].sequence_number <= clip.sequence_number
         THEN Append(clips, clip)
         ELSE Append(insert_by_sequence_number(SubSeq(clips, 1, Len(clips) - 1), clip),
                     clips[Len(clips)])

add_clip_to(clips, clip) == insert_by_sequence_number(clips, clip)

\* The loop over the sorted directory entries.
RECURSIVE load_loop(_, _)
load_loop(entries, sequence) ==
    IF entries = <<>> THEN sequence
    ELSE LET entry == Head(entries)
             clip == from_path(entry.name)
         IN  IF entry.is_dir \/ is_hidden_file(entry.name)
             THEN load_loop(Tail(entries), sequence)
             ELSE IF clip # <<>> /\ is_supported(clip[1])
             THEN load_loop(Tail(entries), add_clip_to(sequence, clip[1]))
             ELSE load_loop(Tail(entries), sequence)

\* A sequence that never counts as empty.
sequence_never_empty(sequence) == FALSE

\* VideoSequence::is_empty
sequence_is_empty(sequence) == sequence = <<>>

load_video_clips(video_dir) ==
    IF video_dir.state = "missing"
    THEN [result |-> "Err", error |-> "NoClipsFound"]
    ELSE IF video_dir.state = "unreadable"
    THEN [result |-> "Err", error |-> "Io"]
    ELSE LET sequence == load_loop(sort_by_file_name(video_dir.entries), <<>>)
         IN  IF sequence_is_empty(sequence)
             THEN [result |-> "Err", error |-> "NoClipsFound"]
             ELSE [result |-> "Ok", sequence |-> sequence]

\* The path does not exist, exists but cannot be listed by read_dir, or is a
\* directory with up to MaxEntries entries.
InitVideo ==
    /\ EngineIdle
    /\ pc = "input"
    /\ analyzer = AnalysisDefault
    /\ \/ input = [state |-> "missing", entries |-> {}]
       \/ input = [state |-> "unreadable", entries |-> {}]
       \/ \E es \in SUBSET DirEntries :
              /\ Cardinality(es) <= MaxEntries
              /\ input = [state |-> "listed", entries |-> es]
    /\ output = "none"

LoadVideoClips ==
    /\ pc = "input"
    /\ output' = load_video_clips(input)
    /\ pc' = "load_video_clips"
    /\ UNCHANGED <<analyzer, input, composition>>

NextVideo == LoadVideoClips

SpecVideo == InitVideo /\ [][NextVideo]_vars

\* The file names of DirEntries that name a supported numbered clip.
NumberedClipNames ==
    {FileNames.ClipOneMp4, FileNames.ClipTwoPng, FileNames.ClipOneAgain}

\* C15: load_video_clips returns Ok only with a non-empty clip sequence; a
\* directory that does not exist, is empty, or holds no file named as a
\* supported numbered clip gives the error NoClipsFound.
C15_NoClipsFound ==
    pc = "load_video_clips" =>
        /\ output.result \in {"Ok", "Err"}
        /\ output.result = "Ok" => output.sequence # <<>>
        /\ (\/ input.state = "missing"
            \/ /\ input.state = "listed"
               /\ ~\E e \in input.entries :
                      ~e.is_dir /\ e.name \in NumberedClipNames)
               => output = [result |-> "Err", error |-> "NoClipsFound"]

\* A directory with three entries, none of them a supported numbered clip,
\* was answered with NoClipsFound.
C15_NothingParsed ==
    /\ pc = "load_video_clips"
    /\ input.state = "listed"
    /\ Cardinality(input.entries) = 3
    /\ output = [result |-> "Err", error |-> "NoClipsFound"]

(***************************************************************************)
(* AudioLoader::load and is_format_supported (src/src/audio/loader.rs).    *)
(* A path is the sequence of the characters of its file name; the file it  *)
(* names is missing, is not audio, or is a valid audio file.               *)
(***************************************************************************)
AudioPaths ==
    {<<"a", ".", "w", "a", "v">>, <<"a", ".", "W", "A", "V">>,
     <<"a", ".", "M", "p", "3">>, <<"a", ".", "f", "l", "a", "c">>,
     <<"b", ".", "a", ".", "F", "L", "A", "C">>, <<"a", ".", "o", "g", "g">>,
     <<"a", ".", "m", "4", "a">>, <<"a", ".", "a", "a", "c">>,
     <<"a", ".", "x", "y", "z">>, <<"a", ".", "X", "Y", "Z">>,
     <<"a", ".", "w", "a", "v", "e">>, <<"a", ".", "m", "p", "4">>,
     <<"w", "a", "v">>, <<".", "w", "a", "v">>, <<"a", ".", "m", "p", "3">>}
FileStates == {"missing", "garbage", "valid"}

\* The ASCII letters: Letters[k][1] is the upper case of Letters[k][2].
Letters ==
    [k \in 1..26 |->
        << <<"A", "B", "C", "D", "E", "F", "G", "H", "I", "J", "K", "L", "M",
             "N", "O", "P", "Q", "R", "S", "T", "U", "V", "W", "X", "Y", "Z">>[k],
           <<"a", "b", "c", "d", "e", "f", "g", "h", "i", "j", "k", "l", "m",
             "n", "o", "p", "q", "r", "s", "t", "u", "v", "w", "x", "y", "z">>[k] >>]

\* The string left as it is written.
as_written(s) == s

\* str::to_lowercase, on ASCII.
to_lowercase(s) ==
    [i \in 1..Len(s) |->
        IF \E k \in 1..26 : Letters[k][1] = s[i]
        THEN Letters[CHOOSE k \in 1..26 : Letters[k][1] = s[i]][2]
        ELSE s[i]]

\* path.extension().and_then(|ext| ext.to_str()).unwrap_or("").to_lowercase()
lowercase_extension(path) ==
    to_lowercase(IF extension(path) = <<>> THEN <<>> ELSE extension(path)[1])

\* The arms of the match in load.
WavArm == {<<"w", "a", "v">>}
SymphoniaArm ==
    {<<"m", "p", "3">>, <<"f", "l", "a", "c">>, <<"o", "g", "g">>,
     <<"m", "4", "a">>, <<"a", "a", "c">>}

is_format_supported(ext) ==
    to_lowercase(ext) \in
        {<<"w", "a", "v">>, <<"m", "p", "3">>, <<"f", "l", "a", "c">>,
         <<"o", "g", "g">>, <<"m", "4", "a">>, <<"a", "a", "c">>}

InitLoader ==
    /\ EngineIdle
    /\ pc = "input"
    /\ analyzer = AnalysisDefault
    /\ \E p \in AudioPaths, f \in FileStates : input = [path |-> p, file |-> f]
    /\ output = "none"

\* load: the extension is taken and matched.
LoadDispatch ==
    /\ pc = "input"
    /\ LET ext == lowercase_extension(input.path)
       IN  IF ext \in WavArm
           THEN /\ pc' = "load_wav"
                /\ output' = [result |-> "none", decoder |-> "load_wav", opened |-> FALSE]
           ELSE IF ext \in SymphoniaArm
           THEN /\ pc' = "load_with_symphonia"
                /\ output' = [result |-> "none", decoder |-> "load_with_symphonia",
                              opened |-> FALSE]
           ELSE /\ pc' = "done"
                /\ output' = [result |-> "Err", decoder |-> "none", opened |-> FALSE,
                              error |-> "UnsupportedFormat", format |-> ext]
    /\ UNCHANGED <<analyzer, input, composition>>

\* What a decoder returns for the file: it cannot open a missing file, and
\* cannot decode one that is not audio.
decode(decoder, file) ==
    IF file = "missing"
    THEN [result |-> "Err", decoder |-> decoder, opened |-> FALSE, error |-> "LoadFailed"]
    ELSE IF file = "garbage"
    THEN [result |-> "Err", decoder |-> decoder, opened |-> TRUE, error |-> "LoadFailed"]
    ELSE [result |-> "Ok", decoder |-> decoder, opened |-> TRUE]

LoadWav ==
    /\ pc = "load_wav"
    /\ output' = decode("load_wav", input.file)
    /\ pc' = "done"
    /\ UNCHANGED <<analyzer, input, composition>>

LoadWithSymphonia ==
    /\ pc = "load_with_symphonia"
    /\ output' = decode("load_with_symphonia", input.file)
    /\ pc' = "done"
    /\ UNCHANGED <<analyzer, input, composition>>

NextLoader == LoadDispatch \/ LoadWav \/ LoadWithSymphonia

SpecLoader == InitLoader /\ [][NextLoader]_vars

\* The lower-cased extension each path of AudioPaths has, written out.
ExpectedExtension(path) ==
    CASE path \in {<<"a", ".", "w", "a", "v">>, <<"a", ".", "W", "A", "V">>}
             -> <<"w", "a", "v">>
      [] path \in {<<"a", ".", "M", "p", "3">>, <<"a", ".", "m", "p", "3">>}
             -> <<"m", "p", "3">>
      [] path \in {<<"a", ".", "f", "l", "a", "c">>,
                   <<"b", ".", "a", ".", "F", "L", "A", "C">>}
             -> <<"f", "l", "a", "c">>
      [] path = <<"a", ".", "o", "g", "g">> -> <<"o", "g", "g">>
      [] path = <<"a", ".", "m", "4", "a">> -> <<"m", "4", "a">>
      [] path = <<"a", ".", "a", "a", "c">> -> <<"a", "a", "c">>
      [] path \in {<<"a", ".", "x", "y", "z">>, <<"a", ".", "X", "Y", "Z">>}
             -> <<"x", "y", "z">>
      [] path = <<"a", ".", "w", "a", "v", "e">> -> <<"w", "a", "v", "e">>
      [] path = <<"a", ".", "m", "p", "4">> -> <<"m", "p", "4">>
      [] OTHER -> <<>>

SixFormats ==
    {<<"w", "a", "v">>, <<"m", "p", "3">>, <<"f", "l", "a", "c">>,
     <<"o", "g", "g">>, <<"m", "4", "a">>, <<"a", "a", "c">>}

\* C16: once load has acted on a path whose lower-cased extension is not one
\* of wav, mp3, flac, ogg, m4a, aac, it has failed with UnsupportedFormat
\* carrying that lower-cased extension and the file was never opened or
\* handed to a decoder; and load hands the path to a decoder exactly when
\* is_format_supported accepts its extension.
C16_UnsupportedFormat ==
    pc # "input" =>
        /\ ExpectedExtension(input.path) \notin SixFormats =>
               /\ pc = "done"
               /\ output.result = "Err"
               /\ output.error = "UnsupportedFormat"
               /\ output.format = ExpectedExtension(input.path)
               /\ ~output.opened
               /\ output.decoder = "none"
        /\ ExpectedExtension(input.path) \in SixFormats => output.decoder # "none"
        /\ output.decoder # "none" <=>
               is_format_supported(IF extension(input.path) = <<>> THEN <<>>
                                   ELSE extension(input.path)[1])

\* load was given an existing file "a.XYZ" and failed with UnsupportedFormat
\* "xyz".
C16_UpperCaseRejected ==
    /\ pc = "done"
    /\ input = [path |-> <<"a", ".", "X", "Y", "Z">>, file |-> "valid"]
    /\ output.result = "Err"
    /\ output.format = <<"x", "y", "z">>

(***************************************************************************)
(* AudioData::mono_samples (src/src/audio/types.rs) followed by            *)
(* AudioAnalyzer::calculate_energy_levels (src/src/audio/analyzer.rs), as  *)
(* analyze calls them.                                                     *)
(*                                                                         *)
(* Numbers.  Samples, rms and peak are integers counted in quarters; the   *)
(* samples drawn are whole numbers, so that the mean of a frame of one or  *)
(* two channels is exact.  rms is rounded down to a quarter.  A time is    *)
(* the fraction <<samples, sample_rate>>, energy_window_size is counted in *)
(* tenths of a second.                                                     *)
(***************************************************************************)
MaxFrames == 4

\* Frames of one channel and of two channels (quarters): -1.0, 0.0, 2.0.
MonoFrames == {<<-4>>, <<0>>, <<8>>}
StereoFrames == {<<-4, 0>>, <<8, 8>>, <<0, 8>>, <<4, 8>>}
\* The interleaved stereo samples [1, 2, 3, 4, 5, 6] of
\* test_audio_data_mono_conversion.
StereoTestSamples == <<4, 8, 12, 16, 20, 24>>
\* Sample rates (Hz) that give windows of 0, 1, 2, 3 and 4 samples at the
\* default energy_window_size of 0.1 s.
SampleRates == {5, 15, 20, 30, 40}

RECURSIVE Flatten(_)
Flatten(frames) == IF frames = <<>> THEN <<>> ELSE Head(frames) \o Flatten(Tail(frames))

\* AudioData values: whole frames of interleaved samples.
AudioInputs ==
    {[samples |-> Flatten(fs), channels |-> 1, sample_rate |-> r] :
        fs \in UNION {[1..n -> MonoFrames] : n \in 0..MaxFrames}, r \in SampleRates}
    \cup
    {[samples |-> Flatten(fs), channels |-> 2, sample_rate |-> r] :
        fs \in UNION {[1..n -> StereoFrames] : n \in 0..MaxFrames}, r \in SampleRates}
    \cup
    {[samples |-> StereoTestSamples, channels |-> 2, sample_rate |-> r] :
        r \in SampleRates}

\* self.samples.chunks(channels): the last chunk may be shorter.
chunks(samples, channels) ==
    [f \in 1..((Len(samples) + channels - 1) \div channels) |->
        SubSeq(samples, (f - 1) * channels + 1, Min2(f * channels, Len(samples)))]

\* AudioData::channel_samples(0): the first channel alone.
first_channel_samples(audio_data) ==
    IF audio_data.channels = 1 THEN audio_data.samples
    ELSE [f \in 1..Len(chunks(audio_data.samples, audio_data.channels)) |->
             chunks(audio_data.samples, audio_data.channels)[f][1]]

\* AudioData::mono_samples
mono_samples(audio_data) ==
    IF audio_data.channels = 1 THEN audio_data.samples
    ELSE [f \in 1..Len(chunks(audio_data.samples, audio_data.channels)) |->
             SumSeq(chunks(audio_data.samples, audio_data.channels)[f])
                 \div audio_data.channels]

\* sqrt(sum of squares / len), rounded down.
rms_of(window) ==
    LET sum_sq == SumSeq([k \in 1..Len(window) |-> window[k] * window[k]])
    IN  CHOOSE r \in 0..(sum_sq + 1) :
            /\ r * r * Len(window) <= sum_sq
            /\ (r + 1) * (r + 1) * Len(window) > sum_sq

peak_of(window) == MaxFrom(0, [k \in 1..Len(window) |-> Abs(window[k])])

zero_crossings_of(window) ==
    Cardinality({k \in 1..(Len(window) - 1) : (window[k] >= 0) # (window[k + 1] >= 0)})

calculate_energy_levels(samples, sample_rate, cfg) ==
    LET window_samples == window_samples_of(cfg, sample_rate)
        hop_samples == hop_samples_of(window_samples)
    IN  IF windowing_panics(cfg, sample_rate) THEN [result |-> "panic"]
        ELSE LET windows == IF Len(samples) < window_samples THEN 0
                            ELSE Len(samples) - window_samples + 1
                 steps == (windows + hop_samples - 1) \div hop_samples
             IN  [result |-> "Ok",
                  energy_levels |->
                      [n \in 1..steps |->
                          LET i == n - 1
                              window == SubSeq(samples, i * hop_samples + 1,
                                               i * hop_samples + window_samples)
                          IN  [time |-> <<i * hop_samples, sample_rate>>,
                               rms |-> rms_of(window),
                               peak |-> peak_of(window),
                               spectral_centroid |-> rms_of(window) * 1000,
                               zero_crossing_rate |->
                                   <<zero_crossings_of(window), Len(window)>>]]]

InitSamples ==
    /\ EngineIdle
    /\ pc = "input"
    /\ analyzer = AnalysisDefault
    /\ input \in AudioInputs
    /\ output = "none"

\* let mono_samples = audio_data.mono_samples();
MonoSamples ==
    /\ pc = "input"
    /\ output' = [mono_samples |-> mono_samples(input)]
    /\ pc' = "mono_samples"
    /\ UNCHANGED <<analyzer, input, composition>>

\* self.calculate_energy_levels(&mono_samples, audio_data.sample_rate)
CalculateEnergyLevels ==
    /\ pc = "mono_samples"
    /\ output' = [mono_samples |-> output.mono_samples,
                  energy |-> calculate_energy_levels(output.mono_samples,
                                                     input.sample_rate, analyzer)]
    /\ pc' = "calculate_energy_levels"
    /\ UNCHANGED <<analyzer, input, composition>>

NextSamples == MonoSamples \/ CalculateEnergyLevels

SpecSamples == InitSamples /\ [][NextSamples]_vars

\* Samples in the window calculate_energy_levels uses.
WindowOf == (analyzer.energy_window_size * input.sample_rate) \div 10

\* C17: for every input calculate_energy_levels accepts (a window of at least
\* 2 samples; it panics on a smaller one), the EnergyLevel times do not
\* decrease, the time of window i is i * hop / sample_rate with
\* hop = window / 2, every rms and peak is >= 0, and samples shorter than one
\* window give Ok with an empty sequence.
C17_EnergyLevels ==
    (pc = "calculate_energy_levels" /\ WindowOf >= 2) =>
        LET levels == output.energy.energy_levels
        IN  /\ output.energy.result = "Ok"
            /\ \A n \in 1..Len(levels) :
                   /\ levels[n].time[1] * input.sample_rate
                          = (n - 1) * (WindowOf \div 2) * levels[n].time[2]
                   /\ levels[n].time[2] > 0
                   /\ levels[n].rms >= 0
                   /\ levels[n].peak >= 0
            /\ \A n \in 1..(Len(levels) - 1) :
                   levels[n].time[1] * levels[n + 1].time[2]
                       <= levels[n + 1].time[1] * levels[n].time[2]
            /\ Len(output.mono_samples) < WindowOf => levels = <<>>

\* Three windows were measured, the last one louder than the first.
C17_ThreeWindows ==
    /\ pc = "calculate_energy_levels"
    /\ output.energy.result = "Ok"
    /\ Len(output.energy.energy_levels) = 3
    /\ output.energy.energy_levels[1].rms < output.energy.energy_levels[3].rms

\* Sum of the samples of frame f of the input.
FrameSum(f) ==
    SumSeq([c \in 1..input.channels |-> input.samples[(f - 1) * input.channels + c]])

\* C18: mono_samples leaves the sample buffer as it was; for one channel it
\* returns the samples unchanged, for several channels one value per frame,
\* the arithmetic mean of the frame's channel samples; stereo
\* [1, 2, 3, 4, 5, 6] gives [1.5, 3.5, 5.5].
C18_MonoMix ==
    [][pc' = "mono_samples" =>
          /\ input' = input
          /\ input.channels = 1 => output'.mono_samples = input.samples
          /\ input.channels > 1 =>
                 /\ Len(output'.mono_samples) * input.channels = Len(input.samples)
                 /\ \A f \in 1..Len(output'.mono_samples) :
                        output'.mono_samples[f] * input.channels = FrameSum(f)
          /\ (input.channels = 2 /\ input.samples = StereoTestSamples) =>
                 output'.mono_samples = <<6, 14, 22>>]_vars

\* The stereo samples [1, 2, 3, 4, 5, 6] were mixed down to three values.
C18_StereoMixed ==
    /\ pc = "mono_samples"
    /\ input.channels = 2
    /\ input.samples = StereoTestSamples
    /\ Len(output.mono_samples) = 3

(***************************************************************************)
(* Peak picking in AudioAnalyzer::detect_onsets                            *)
(* (src/src/audio/analyzer.rs).  The spectral flux of each frame, which    *)
(* the source computes with an FFT, is an input here: the frame loop       *)
(* takes the flux values one by one, as the source does.  Flux values are  *)
(* integers, beat_sensitivity is counted in tenths, and a time is the      *)
(* fraction <<samples, sample_rate>>.                                      *)
(***************************************************************************)
MaxFluxFrames == 8

FluxValues == {1, 4, 10}
FluxCurves == UNION {[1..n -> FluxValues] : n \in {0, 2, MaxFluxFrames}}
\* beat_sensitivity: the default 0.7, and 1.0.
OnsetSensitivities == {7, 10}

\* (frame_idx * hop_size) as f64 / sample_rate as f64
frame_time(frame_idx, cfg, sample_rate) == <<frame_idx * cfg.hop_size, sample_rate>>

\* The test made on frame frame_idx right after its flux was pushed onto
\* spectral_flux: TRUE iff an onset is pushed.  The comparisons are
\* multiplied through by the window length.
adaptive_onset(spectral_flux, frame_idx, cfg) ==
    /\ frame_idx > 3
    /\ frame_idx < Len(spectral_flux) - 3
    /\ LET window_start == Max2(frame_idx - 3, 0)
           window_end == Min2(frame_idx + 3, Len(spectral_flux))
           window == SubSeq(spectral_flux, window_start + 1, window_end)
           n == window_end - window_start
           local_max == MaxFrom(0, window)
           sum == SumSeq(window)
           flux == spectral_flux[frame_idx + 1]
       IN  /\ 20 * n * flux >= 20 * sum + cfg.beat_sensitivity * (n * local_max - sum)
           /\ flux = local_max
           /\ 2 * n * flux > 3 * sum

\* flux > mean_flux * (2.0 + beat_sensitivity), multiplied through by
\* 10 * len.
above_simple_threshold(flux, flux_values, cfg) ==
    10 * Len(flux_values) * flux > SumSeq(flux_values) * (20 + cfg.beat_sensitivity)

\* The simple-threshold pass over all frames.
simple_onsets(flux_values, cfg, sample_rate) ==
    LET hits == SelectSeq([k \in 1..Len(flux_values) |-> k - 1],
                          LAMBDA frame_idx :
                              above_simple_threshold(flux_values[frame_idx + 1],
                                                     flux_values, cfg))
    IN  [k \in 1..Len(hits) |-> frame_time(hits[k], cfg, sample_rate)]

InitOnsets ==
    /\ EngineIdle
    /\ pc = "frames"
    /\ \E s \in OnsetSensitivities :
           analyzer = [AnalysisDefault EXCEPT !.beat_sensitivity = s]
    /\ \E c \in FluxCurves : input = [flux |-> c, sample_rate |-> 44100]
    /\ output = [spectral_flux |-> <<>>, onsets |-> <<>>]

\* One iteration of the frame loop.
DetectFrame ==
    /\ pc = "frames"
    /\ Len(output.spectral_flux) < Len(input.flux)
    /\ LET frame_idx == Len(output.spectral_flux)
           spectral_flux == Append(output.spectral_flux, input.flux[frame_idx + 1])
       IN  output' = [spectral_flux |-> spectral_flux,
                      onsets |->
                          IF adaptive_onset(spectral_flux, frame_idx, analyzer)
                          THEN Append(output.onsets,
                                      frame_time(frame_idx, analyzer, input.sample_rate))
                          ELSE output.onsets]
    /\ UNCHANGED <<pc, analyzer, input, composition>>

\* After the loop: the simple threshold if no onset was found, and return.
DetectReturn ==
    /\ pc = "frames"
    /\ Len(output.spectral_flux) = Len(input.flux)
    /\ output' = [output EXCEPT
                     !.onsets = IF @ = <<>> /\ output.spectral_flux # <<>>
                                THEN simple_onsets(output.spectral_flux, analyzer,
                                                   input.sample_rate)
                                ELSE @]
    /\ pc' = "done"
    /\ UNCHANGED <<analyzer, input, composition>>

NextOnsets == DetectFrame \/ DetectReturn

SpecOnsets == InitOnsets /\ [][NextOnsets]_vars

\* The adaptive peak test on frame i (0-based) of the whole flux curve, over
\* the window flux[i-3 .. i+3).
IsAdaptivePeak(i) ==
    LET window == SubSeq(input.flux, i - 3 + 1, i + 3)
        local_max == CHOOSE x \in {window[k] : k \in 1..6} :
                         \A k \in 1..6 : window[k] <= x
        sum == SumSeq(window)
        flux == input.flux[i + 1]
    IN  /\ 20 * 6 * flux >= 20 * sum + analyzer.beat_sensitivity * (6 * local_max - sum)
        /\ flux = local_max
        /\ 2 * 6 * flux > 3 * sum

\* C19: when detect_onsets has returned, every frame i with at least 3 frames
\* before it and 3 frames after it is an onset iff flux[i] >= local_mean +
\* sensitivity * (local_max - local_mean) * 0.5, flux[i] = local_max and
\* flux[i] > 1.5 * local_mean, taken over flux[i-3 .. i+3).
C19_AdaptivePeaks ==
    pc = "done" =>
        \A i \in 3..(Len(input.flux) - 4) :
            (\E k \in 1..Len(output.onsets) :
                 output.onsets[k] = <<i * analyzer.hop_size, input.sample_rate>>)
                <=> IsAdaptivePeak(i)

\* The energy-based fallback produced the output: the onset path gave no beat.
FallbackRan ==
    /\ pc = "track_beats"
    /\ track_beats_from_onsets(input.onsets, input.energy_levels, analyzer) = <<>>

\* C22: every beat of the energy-based fallback sits on an energy sample whose
\* rms is above mean + 0.3 * (max - mean) and is at least the rms of every
\* sample at most 2 positions before or after it; with fewer than 10 energy
\* samples the fallback returns no beat.
C22_EnergyPeaks ==
    FallbackRan =>
        LET levels == input.energy_levels
        IN  /\ Len(levels) < 10 => output = <<>>
            /\ \A b \in 1..Len(output) :
                   \E i \in 1..Len(levels) :
                       /\ levels[i].time = output[b].time
                       /\ above_energy_threshold(levels[i].rms, levels)
                       /\ \A k \in Max2(i - 2, 1)..Min2(i + 2, Len(levels)) :
                              levels[k].rms <= levels[i].rms

\* C25: the timeline generate_timeline returns has its cuts in non-decreasing
\* time order and begins with the cut at 0.0 on clip 1, whatever the beats,
\* the pool size and the post-pass did.
C25_Finalized ==
    (pc = "done" /\ result = "Ok") =>
        /\ NonDecreasing(timeline.cuts)
        /\ timeline.cuts[1] = 0
        /\ timeline.clip_assignments[1] = 1

\* C25 witness: on a 12 s track the sweep cut on the beat at 10 s, the
\* post-pass then added its cut at 6 s, and the timeline returned has the
\* three cuts in time order.
C25_PostPassCutSortedIn ==
    /\ pc = "done"
    /\ result = "Ok"
    /\ duration = 24
    /\ last_cut_time = 20
    /\ timeline.cuts = <<0, 12, 20>>

\* C29: every clip id in the timeline generate_timeline builds and returns
\* (the initial cut, the cuts of the sweep and those of the post-pass) lies
\* in 1..num_clips.
C29_ClipIdsInRange ==
    pc \in {"loop", "body", "done"} =>
        \A k \in 1..Len(timeline.clip_assignments) :
            timeline.clip_assignments[k] \in 1..num_clips

\* C29 witness: with a single clip, a timeline was returned to which the
\* sweep and the post-pass have each added a cut.
C29_SingleClipAllPasses ==
    /\ pc = "done"
    /\ result = "Ok"
    /\ num_clips = 1
    /\ last_cut_time > 0
    /\ Len(timeline.cuts) > 2
    /\ \E k \in 1..Len(timeline.cuts) :
           timeline.cuts[k] > 0 /\ timeline.cuts[k] # last_cut_time

\* C24: once analyze has acted on a config whose energy_window_size is not
\* positive, validation has rejected it: analyze has returned an
\* InvalidParameters error and no stage, the windowing of
\* calculate_energy_levels included, has run.
C24_EnergyWindowRejected ==
    (pc # "input" /\ analyzer.energy_window_size <= 0) =>
        /\ pc = "done"
        /\ output.result = "Err"
        /\ output.error.kind = "InvalidParameters"
        /\ output.stages = <<>>

(***************************************************************************)
(* CompositionEngine::compose and its five pipeline steps,                 *)
(* src/src/composition/engine.rs.  Step 2 is load_video_clips and step 3   *)
(* the generate_timeline sweep, both as modelled above and in the units of *)
(* the sweep; step 1 is known by what analyze_audio returns, an            *)
(* AudioAnalysis or an error.  `output` collects what compose has done:    *)
(* the steps begun, what each returned, the loaded VideoSequence, the      *)
(* segments step 4 processed and skipped, and whether the output file was  *)
(* written.                                                                *)
(***************************************************************************)
PipelineSteps ==
    <<"analyze_audio", "load_video_clips", "generate_timeline",
      "process_video_with_effects", "generate_final_output">>

\* Errors of analyze_audio: from AudioLoader::load and AudioAnalyzer::analyze.
AudioErrors == {"UnsupportedFormat", "AnalysisFailed"}
\* Energy curves of the analysis (tenths): quiet, and loud after a quiet start.
ComposeProfiles == {<<0, 0>>, <<0, 10, 10>>}
\* beat_sync_strength (tenths): the default 0.8, and 1.5.
ComposeSyncStrengths == {8, 15}
\* Video directories: missing, empty, and some holding numbered clips.
ComposeDirs ==
    {[state |-> "missing", entries |-> {}]}
        \cup {[state |-> "listed",
               entries |-> {[name |-> FileNames[n], is_dir |-> FALSE] : n \in ns}] :
                 ns \in {{}, {"ClipOneMp4"}, {"ClipTwoPng"},
                         {"ClipOneMp4", "ClipTwoPng"},
                         {"ClipOneMp4", "ClipOneAgain", "TextFile"}}}

\* CompositionConfig::validate: "Ok", or the key of the first check failed.
CompositionConfig_validate(cfg) ==
    IF ~(0 <= cfg.beat_sync_strength /\ cfg.beat_sync_strength <= 10)
    THEN "composition.beat_sync_strength"
    ELSE IF cfg.max_cut_interval <= cfg.min_cut_interval
    THEN "composition.cut_interval_range"
    ELSE "Ok"

\* A step whose error is dropped: the pipeline goes on.
go_on_after(returned, next_pc) == [pc |-> next_pc, result |-> "none"]

\* The `?` after a step: on an error compose returns it, otherwise it goes on
\* to the next step.
question_mark(returned, next_pc) ==
    IF returned = "Ok" THEN [pc |-> next_pc, result |-> "none"]
    ELSE [pc |-> "returned", result |-> returned]

\* VideoSequence::get_clip: the first clip with that sequence number, as an
\* Option (<<>> is None).
get_clip(sequence, sequence_number) ==
    LET found == {k \in 1..Len(sequence) :
                     sequence[k].sequence_number = sequence_number}
    IN  IF found = {} THEN <<>>
        ELSE <<sequence[CHOOSE k \in found : \A j \in found : k <= j]>>

\* The loop of process_video_with_effects: the 0-based indices of the segments
\* whose clip was found and of those whose clip was not.
segments_of(sequence, tl) ==
    LET clip_id(i) == IF i <= Len(tl.clip_assignments)
                      THEN tl.clip_assignments[i] ELSE 1
    IN  [processed |-> {i - 1 : i \in {k \in 1..Len(tl.cuts) :
                                          get_clip(sequence, clip_id(k)) # <<>>}},
         skipped |-> {i - 1 : i \in {k \in 1..Len(tl.cuts) :
                                        get_clip(sequence, clip_id(k)) = <<>>}}]

InitCompose ==
    /\ \E ci \in CutIntervals, s \in ComposeSyncStrengths :
           config = [min_cut_interval |-> ci[1], max_cut_interval |-> ci[2],
                     beat_sync_strength |-> s]
    /\ num_clips = 0
    /\ duration = 0
    /\ energy_levels = <<>>
    /\ pc = "compose"
    /\ beat = NoBeat
    /\ beat_count = 0
    /\ timeline = new
    /\ current_clip = 0
    /\ last_cut_time = 0
    /\ result = "none"
    /\ ret = 0
    /\ analyzer = AnalysisDefault
    /\ \E d \in ComposeDirs : input = [video_dir |-> d]
    /\ output = [steps |-> <<>>, returned |-> <<>>, result |-> "none",
                 sequence |-> <<>>, processed |-> {}, skipped |-> {},
                 file_written |-> FALSE]

\* Pipeline step 1: analyze_audio returns an analysis or an error.
ComposeAnalyzeAudio ==
    /\ pc = "compose"
    /\ \E returned \in {"Ok"} \cup AudioErrors :
           LET after == question_mark(returned, "load_video_clips")
           IN  /\ output' = [output EXCEPT !.steps = Append(@, "analyze_audio"),
                                           !.returned = Append(@, returned),
                                           !.result = after.result]
               /\ pc' = after.pc
               /\ IF returned = "Ok"
                  THEN /\ duration' \in {d \in Durations : CoverageExact(d)}
                       /\ \E p \in ComposeProfiles :
                              energy_levels' =
                                  [k \in 1..Len(p) |->
                                      [time |-> EnergySampleTime(k), rms |-> p[k]]]
                  ELSE UNCHANGED <<duration, energy_levels>>
    /\ UNCHANGED <<config, num_clips, beat, beat_count, timeline, current_clip,
                   last_cut_time, result, ret, analyzer, input>>

\* Pipeline step 2: load_video_clips on the video directory.
ComposeLoadVideoClips ==
    /\ pc = "load_video_clips"
    /\ LET loaded == load_video_clips(input.video_dir)
           returned == IF loaded.result = "Ok" THEN "Ok" ELSE loaded.error
           after == question_mark(returned, "generate_timeline")
       IN  /\ output' = [output EXCEPT
                            !.steps = Append(@, "load_video_clips"),
                            !.returned = Append(@, returned),
                            !.result = after.result,
                            !.sequence = IF loaded.result = "Ok"
                                         THEN loaded.sequence ELSE <<>>]
           /\ pc' = after.pc
    /\ UNCHANGED <<inputs, beat, beat_count, timeline, current_clip,
                   last_cut_time, result, ret, analyzer, input>>

\* Pipeline step 3 begins: generate_timeline is called with the analysis and
\* the sequence; Start, NextBeat, ProcessBeat and Finish are its body.
ComposeGenerateTimeline ==
    /\ pc = "generate_timeline"
    /\ num_clips' = Len(output.sequence)
    /\ output' = [output EXCEPT !.steps = Append(@, "generate_timeline")]
    /\ pc' = "start"
    /\ UNCHANGED <<config, duration, energy_levels, beat, beat_count, timeline,
                   current_clip, last_cut_time, result, ret, analyzer, input>>

\* generate_timeline has returned; on Ok pipeline step 4 runs:
\* process_video_with_effects walks the cuts, skips a segment whose clip
\* get_clip does not find, and returns the error of a failing apply_effect.
ComposeProcessVideo ==
    /\ pc = "done"
    /\ output.result = "none"
    /\ LET timeline_returned == IF result = "Ok" THEN "Ok" ELSE "SequencingFailed"
           after_timeline == question_mark(timeline_returned, "process")
           segments == segments_of(output.sequence, timeline)
       IN  IF after_timeline.pc = "returned"
           THEN /\ output' = [output EXCEPT
                                 !.returned = Append(@, timeline_returned),
                                 !.result = after_timeline.result]
                /\ pc' = "returned"
           ELSE \E failing \in segments.processed \cup {-1} :
                    LET returned == IF failing = -1 THEN "Ok" ELSE "EffectFailed"
                        after == question_mark(returned, "generate_final_output")
                    IN  /\ output' =
                               [output EXCEPT
                                   !.steps = Append(@, "process_video_with_effects"),
                                   !.returned = @ \o <<timeline_returned, returned>>,
                                   !.result = after.result,
                                   !.processed =
                                       IF failing = -1 THEN segments.processed
                                       ELSE {i \in segments.processed : i < failing},
                                   !.skipped =
                                       IF failing = -1 THEN segments.skipped
                                       ELSE {i \in segments.skipped : i < failing}]
                        /\ pc' = after.pc
    /\ UNCHANGED <<inputs, beat, beat_count, timeline, current_clip,
                   last_cut_time, result, ret, analyzer, input>>

\* Pipeline step 5: generate_final_output writes the output file, or
\* std::fs::write fails.
ComposeFinalOutput ==
    /\ pc = "generate_final_output"
    /\ \E returned \in {"Ok", "Io"} :
           /\ output' = [output EXCEPT
                            !.steps = Append(@, "generate_final_output"),
                            !.returned = Append(@, returned),
                            !.result = returned,
                            !.file_written = (returned = "Ok")]
           /\ pc' = "returned"
    /\ UNCHANGED <<inputs, beat, beat_count, timeline, current_clip,
                   last_cut_time, result, ret, analyzer, input>>

NextCompose ==
    \/ ComposeAnalyzeAudio
    \/ ComposeLoadVideoClips
    \/ ComposeGenerateTimeline
    \/ Start
    \/ NextBeat
    \/ ProcessBeat
    \/ Finish
    \/ ComposeProcessVideo
    \/ ComposeFinalOutput

SpecCompose == InitCompose /\ [][NextCompose]_vars

\* C23: once compose has acted on a configuration that CompositionConfig's
\* validation rejects (beat_sync_strength outside [0, 1] or
\* max_cut_interval <= min_cut_interval), it has returned the configuration
\* error InvalidValue without beginning any pipeline step: no audio loading,
\* no clip loading, no sweep.
C23_ConfigCheckedFirst ==
    (pc # "compose" /\ CompositionConfig_validate(config) # "Ok") =>
        /\ pc = "returned"
        /\ output.steps = <<>>
        /\ output.result = "InvalidValue"

\* C26: compose begins its steps in the order analyze_audio,
\* load_video_clips, generate_timeline, process_video_with_effects,
\* generate_final_output; a step begins only after every earlier one returned
\* Ok; when a step returns an error compose has returned that same error and
\* begins no further step; the output file is written only after all four
\* earlier steps returned Ok.
C26_PipelineOrder ==
    LET n == Len(output.returned)
    IN  /\ Len(output.steps) <= Len(PipelineSteps)
        /\ output.steps = SubSeq(PipelineSteps, 1, Len(output.steps))
        /\ n <= Len(output.steps)
        /\ \A k \in 1..n :
               output.returned[k] # "Ok"
                   => /\ k = n
                      /\ n = Len(output.steps)
                      /\ pc = "returned"
                      /\ output.result = output.returned[k]
        /\ output.result \notin {"none", "Ok"}
               => n > 0 /\ output.result = output.returned[n]
        /\ output.file_written
               => /\ output.steps = PipelineSteps
                  /\ output.returned = <<"Ok", "Ok", "Ok", "Ok", "Ok">>
        /\ output.result = "Ok" => output.file_written

\* C26 witness: apply_effect failed in step 4; compose returned its error
\* after four steps, and no output file was written.
C26_EffectFailureAborts ==
    /\ pc = "returned"
    /\ output.result = "EffectFailed"
    /\ output.steps = SubSeq(PipelineSteps, 1, 4)
    /\ ~output.file_written

\* C30: every clip id of the timeline generate_timeline returned inside
\* compose resolves to a clip of the loaded video sequence (get_clip finds a
\* clip with that sequence number), and process_video_with_effects has
\* skipped no segment.
C30_ClipIdsResolve ==
    /\ (pc = "done" /\ result = "Ok")
           => \A k \in 1..Len(timeline.clip_assignments) :
                  get_clip(output.sequence, timeline.clip_assignments[k]) # <<>>
    /\ output.skipped = {}

(***************************************************************************)
(* VideoLoader::extract_frames_at_times and extract_batch,                 *)
(* src/src/video/loader_optimized.rs.  The closures that par_iter runs for *)
(* the timestamps of one chunk are workers: each starts, runs FFmpeg and   *)
(* finishes on its own, in any order; collect() waits for all of them and  *)
(* returns their results in the order of the chunk.  A timestamp is a      *)
(* whole number of seconds; FFmpeg fails on the timestamps in              *)
(* `input.failing`.  A frame is known by its kind and by the timestamp it  *)
(* was taken at.                                                           *)
(***************************************************************************)
MaxTimestamps == 101
BatchSize == 100

\* Frame::new_filled(1920, 1080, [64, 64, 64])
PlaceholderFrame == [kind |-> "placeholder", timestamp |-> -1]

\* Calls on a video file: n timestamps 1..n, the loader's
\* max_parallel_extractions (1 to 4, or 2 to 8 on macOS), and the timestamps
\* FFmpeg fails on.  Calls on an image file, which loads or does not.
ExtractInputs ==
    {[is_image |-> FALSE, image_loads |-> FALSE,
      timestamps |-> [k \in 1..n |-> k],
      max_parallel_extractions |-> p, failing |-> f] :
        n \in {0, 2, 5, MaxTimestamps}, p \in {1, 3, 4},
        f \in {{}, {2}, {5, MaxTimestamps - 1}, 1..MaxTimestamps}}
    \cup
    {[is_image |-> TRUE, image_loads |-> l, timestamps |-> <<1, 2>>,
      max_parallel_extractions |-> 4, failing |-> {}] : l \in BOOLEAN}

\* A chunk as long as the whole batch.
whole_batch(self, timestamps) == Max2(Len(timestamps), 1)

\* let chunk_size = self.max_parallel_extractions
chunk_size_of(self, timestamps) == self.max_parallel_extractions

\* The index within the chunk alone.
rel_idx_alone(chunk_idx, chunk_size, rel_idx) == rel_idx

\* let abs_idx = chunk_idx * chunk_size + rel_idx
abs_idx_of(chunk_idx, chunk_size, rel_idx) == chunk_idx * chunk_size + rel_idx

\* What the closure returns for a timestamp: the frame FFmpeg wrote, or an
\* error.
extraction_result(self, timestamp) ==
    IF timestamp \in self.failing
    THEN [kind |-> "Err", timestamp |-> timestamp]
    ELSE [kind |-> "frame", timestamp |-> timestamp]

\* timestamps.chunks(batch_size), and the chunks of the current batch.
batches_of(self) == chunks(self.timestamps, BatchSize)
chunks_of_batch(self, batch_num) ==
    chunks(batches_of(self)[batch_num + 1],
           chunk_size_of(self, batches_of(self)[batch_num + 1]))

\* The workers of a chunk, none of them started.
pending_workers(timestamp_chunk) ==
    [rel \in 1..Len(timestamp_chunk) |-> [kind |-> "pending", timestamp |-> -1]]

\* all_results.sort_by_key(|(i, _)| *i), a stable sort: a result goes to the
\* place after every result of a smaller index and every earlier result of
\* the same index.
sort_by_key(all_results) ==
    LET n == Len(all_results)
        place == [k \in 1..n |->
                     1 + Cardinality({j \in 1..n :
                             \/ all_results[j][1] < all_results[k][1]
                             \/ all_results[j][1] = all_results[k][1] /\ j < k})]
    IN  [i \in 1..n |-> all_results[CHOOSE k \in 1..n : place[k] = i]]

\* The end of extract_batch: the results sorted by index, every error
\* replaced by a placeholder frame, and the two counts.
batch_frames(all_results) ==
    LET sorted == sort_by_key(all_results)
        failed == {k \in 1..Len(sorted) : sorted[k][2].kind = "Err"}
    IN  [frames |-> [k \in 1..Len(sorted) |->
                        IF k \in failed THEN PlaceholderFrame ELSE sorted[k][2]],
         success_count |-> Len(sorted) - Cardinality(failed),
         error_count |-> Cardinality(failed)]

InitExtract ==
    /\ EngineIdle
    /\ pc = "input"
    /\ analyzer = AnalysisDefault
    /\ input \in ExtractInputs
    /\ output = [result |-> "none", batch_num |-> 0, chunk_idx |-> 0,
                 workers |-> <<>>, all_results |-> <<>>, all_frames |-> <<>>,
                 total_success |-> 0, total_failed |-> 0]

\* extract_frames_at_times up to its loop over the batches: an image file
\* is answered with copies of the one image, no timestamps with no frames.
ExtractFramesAtTimes ==
    /\ pc = "input"
    /\ IF input.is_image
       THEN /\ pc' = "returned"
            /\ output' =
                   IF input.image_loads
                   THEN [output EXCEPT
                            !.result = "Ok",
                            !.all_frames = [k \in 1..Len(input.timestamps) |->
                                               [kind |-> "image", timestamp |-> -1]]]
                   ELSE [output EXCEPT !.result = "LoadFailed"]
       ELSE IF input.timestamps = <<>>
       THEN pc' = "returned" /\ output' = [output EXCEPT !.result = "Ok"]
       ELSE pc' = "batch" /\ UNCHANGED output
    /\ UNCHANGED <<analyzer, input, composition>>

\* The next batch: extract_batch creates its temp directory and starts on
\* its first chunk, or cannot create it, and the whole batch becomes
\* placeholder frames.
BatchBegin ==
    /\ pc = "batch"
    /\ output.batch_num < Len(batches_of(input))
    /\ \/ /\ output' = [output EXCEPT
                           !.chunk_idx = 0,
                           !.all_results = <<>>,
                           !.workers = pending_workers(
                                           chunks_of_batch(input, output.batch_num)[1])]
          /\ pc' = "chunk"
       \/ /\ LET timestamp_batch == batches_of(input)[output.batch_num + 1]
             IN  output' = [output EXCEPT
                               !.all_frames = @ \o [k \in 1..Len(timestamp_batch) |->
                                                       PlaceholderFrame],
                               !.total_failed = @ + Len(timestamp_batch),
                               !.batch_num = @ + 1]
          /\ pc' = "batch"
    /\ UNCHANGED <<analyzer, input, composition>>

\* A worker of the current chunk starts its FFmpeg run.
WorkerStart(rel) ==
    /\ pc = "chunk"
    /\ output.workers[rel].kind = "pending"
    /\ output' = [output EXCEPT !.workers[rel].kind = "running"]
    /\ UNCHANGED <<pc, analyzer, input, composition>>

\* A running worker finishes with its result.
WorkerFinish(rel) ==
    /\ pc = "chunk"
    /\ output.workers[rel].kind = "running"
    /\ output' = [output EXCEPT
                     !.workers[rel] =
                         extraction_result(input,
                             chunks_of_batch(input, output.batch_num)
                                 [output.chunk_idx + 1][rel])]
    /\ UNCHANGED <<pc, analyzer, input, composition>>

\* collect() returns once every worker of the chunk has finished; the
\* results join all_results under their indices.  Then the next chunk, or
\* after the last one the end of extract_batch and of the loop body in
\* extract_frames_at_times.
ChunkCollect ==
    /\ pc = "chunk"
    /\ \A rel \in 1..Len(output.workers) :
           output.workers[rel].kind \in {"frame", "Err"}
    /\ LET batch_chunks == chunks_of_batch(input, output.batch_num)
           timestamp_batch == batches_of(input)[output.batch_num + 1]
           chunk_results ==
               [rel \in 1..Len(output.workers) |->
                   <<abs_idx_of(output.chunk_idx,
                                chunk_size_of(input, timestamp_batch), rel - 1),
                     output.workers[rel]>>]
           all_results == output.all_results \o chunk_results
       IN  IF output.chunk_idx + 1 < Len(batch_chunks)
           THEN /\ output' = [output EXCEPT
                                 !.all_results = all_results,
                                 !.chunk_idx = @ + 1,
                                 !.workers = pending_workers(
                                                 batch_chunks[output.chunk_idx + 2])]
                /\ pc' = "chunk"
           ELSE /\ output' = [output EXCEPT
                                 !.all_results = <<>>,
                                 !.workers = <<>>,
                                 !.all_frames = @ \o batch_frames(all_results).frames,
                                 !.total_success =
                                     @ + batch_frames(all_results).success_count,
                                 !.total_failed =
                                     @ + batch_frames(all_results).error_count,
                                 !.batch_num = @ + 1]
                /\ pc' = "batch"
    /\ UNCHANGED <<analyzer, input, composition>>

\* Every batch is done: Ok(all_frames).
ExtractReturn ==
    /\ pc = "batch"
    /\ output.batch_num = Len(batches_of(input))
    /\ output' = [output EXCEPT !.result = "Ok"]
    /\ pc' = "returned"
    /\ UNCHANGED <<analyzer, input, composition>>

WorkerStartStep == \E rel \in 1..Len(output.workers) : WorkerStart(rel)

WorkerFinishStep == \E rel \in 1..Len(output.workers) : WorkerFinish(rel)

NextExtract ==
    \/ ExtractFramesAtTimes
    \/ BatchBegin
    \/ WorkerStartStep
    \/ WorkerFinishStep
    \/ ChunkCollect
    \/ ExtractReturn

SpecExtract == InitExtract /\ [][NextExtract]_vars

\* The workers of the current chunk whose FFmpeg run is in flight.
InFlight == {rel \in 1..Len(output.workers) : output.workers[rel].kind = "running"}

\* C27: during extract_batch at most max_parallel_extractions extractions
\* are in flight, all of them of the current chunk, which has at most that
\* many timestamps; a chunk is begun only when every result of the chunks
\* before it has been collected, and a batch only when every frame of the
\* batches before it has been delivered.
C27_BoundedConcurrency ==
    /\ Cardinality(InFlight) <= input.max_parallel_extractions
    /\ Len(output.workers) <= input.max_parallel_extractions
    /\ pc # "chunk" => InFlight = {}
    /\ pc = "chunk" =>
           /\ Len(output.all_results)
                  = output.chunk_idx * input.max_parallel_extractions
           /\ Len(output.all_frames) = output.batch_num * BatchSize

\* C27 witness: with max_parallel_extractions = 4, the four extractions of
\* the second chunk are all in flight at once.
C27_FullChunkInFlight ==
    /\ pc = "chunk"
    /\ input.max_parallel_extractions = 4
    /\ output.chunk_idx = 1
    /\ InFlight = 1..4

\* C28: when extract_frames_at_times returns for a video file, in whatever
\* order the workers ran and whichever extractions failed, it returns Ok with
\* one frame per timestamp; frame k is the frame taken at timestamp k or a
\* placeholder, and is a placeholder when the extraction of timestamp k
\* failed; the success and failure counts sum to the number of timestamps.
C28_OneFramePerTimestamp ==
    (pc = "returned" /\ ~input.is_image) =>
        LET n == Len(input.timestamps)
        IN  /\ output.result = "Ok"
            /\ Len(output.all_frames) = n
            /\ \A k \in 1..n :
                   /\ output.all_frames[k]
                          \in {PlaceholderFrame,
                               [kind |-> "frame", timestamp |-> input.timestamps[k]]}
                   /\ input.timestamps[k] \in input.failing
                          => output.all_frames[k] = PlaceholderFrame
            /\ output.total_success + output.total_failed = n
            /\ output.total_success
                   = Cardinality({k \in 1..n : output.all_frames[k].kind = "frame"})

\* C28 witness: five timestamps in two chunks, the extraction of the second
\* one failed: the frames returned are those of timestamps 1, 3, 4, 5 with a
\* placeholder in second place, counted as 4 successes and 1 failure.
C28_PlaceholderInPlace ==
    /\ pc = "returned"
    /\ input.max_parallel_extractions = 3
    /\ [k \in 1..Len(output.all_frames) |-> output.all_frames[k].timestamp]
           = <<1, -1, 3, 4, 5>>
    /\ output.total_success = 4
    /\ output.total_failed = 1

====
